---- MODULE Spec2Model ----
(***************************************************************************)
(* MLA format checker: the DOCX structural extractor (DocxParser), the     *)
(* rule evaluation engine (MLARulesEngine) and the page component (Home)   *)
(* that drives them.                                                       *)
(*                                                                         *)
(* Conventions of the model                                                *)
(*  - an optional JavaScript value (undefined / null / a value) is a set   *)
(*    with at most one element: {} is undefined or null, {v} is v;         *)
(*  - XML attribute values are strings, as xml2js delivers them, and       *)
(*    parseInt turns them into numbers;                                    *)
(*  - a font size in points is kept in tenths of a point (12pt = 120), so  *)
(*    that the half-point resolution of the source stays integral;         *)
(*  - JavaScript indices are 0-based, sequences here are 1-based: the      *)
(*    label `Paragraph ${index + 1}` is "Paragraph " \o ToString(i);       *)
(*  - the remediation texts (suggestions) of a check result are display    *)
(*    strings that no decision reads; they are left out of the records.    *)
(***************************************************************************)
EXTENDS Integers, Sequences, FiniteSets, TLC

VARIABLES
  file,            \* pipeline: the uploaded archive handed to parseDocx
  parseResult,     \* pipeline: the DocxParseResult (or NoValue)
  parseError,      \* pipeline: the message of the error parseDocx threw
  report,          \* pipeline: the MLAAnalysisResult (or NoValue)
  pc,              \* pipeline: position of the run
  uploadedFile,    \* Home: useState uploadedFile
  analysisResult,  \* Home: useState analysisResult
  isAnalyzing,     \* Home: useState isAnalyzing
  analysisError,   \* Home: useState analysisError
  calls,           \* Home: the performAnalysis calls in flight
  input,           \* one check: the function called and its arguments
  output           \* one check: the value the function returned

vars == <<file, parseResult, parseError, report, pc,
          uploadedFile, analysisResult, isAnalyzing, analysisError, calls,
          input, output>>

pipelineVars == <<file, parseResult, parseError, report, pc>>
homeVars == <<uploadedFile, analysisResult, isAnalyzing, analysisError, calls>>
callVars == <<input, output>>

-----------------------------------------------------------------------------
(* Optional values *)

None == {}
Some(v) == {v}
IsSome(o) == o # {}
Get(o) == CHOOSE v \in o : TRUE
\* a || b on optional values whose present values are all truthy
OrElse(a, b) == IF IsSome(a) THEN a ELSE b

NoValue == [kind |-> "none"]

Abs(n) == IF n < 0 THEN -n ELSE n

\* the indices of a sequence, in order
Indices(s) == [i \in 1..Len(s) |-> i]

\* Array.prototype.filter(...).length
CountOf(s, Test(_)) == Cardinality({i \in 1..Len(s) : Test(s[i])})

-----------------------------------------------------------------------------
(* Bounds of the model *)

\* free paragraphs of a generated document body
MaxParas == 3

\* performAnalysis calls that may be in flight at once in the page component
MaxCalls == 2

-----------------------------------------------------------------------------
(* parseInt on the attribute strings that occur in the generated documents *)

\* the strings parseInt finds no leading integer in (result NaN)
ParsesToNaN(s) == s \in {"", "abc", "pt24"}

\* parseInt: the integer the string begins with (trailing text is dropped)
parseInt(s) ==
  CASE s = "0"    -> 0
    [] s = "-24"  -> 0 - 24
    [] s = "7"    -> 7
    [] s = "8"    -> 8
    [] s = "24pt" -> 24
    [] s = "25"   -> 25
    [] s = "144"  -> 144
    [] s = "145"  -> 145
    [] s = "24"   -> 24
    [] s = "28"   -> 28
    [] s = "200"  -> 200
    [] s = "240"  -> 240
    [] s = "420"  -> 420
    [] s = "429"  -> 429
    [] s = "430"  -> 430
    [] s = "440"  -> 440
    [] s = "449"  -> 449
    [] s = "450"  -> 450
    [] s = "480"  -> 480
    [] s = "520"  -> 520
    [] s = "521"  -> 521
    [] s = "530"  -> 530
    [] s = "531"  -> 531
    [] s = "647"  -> 647
    [] s = "648"  -> 648
    [] s = "720"  -> 720
    [] s = "792"  -> 792
    [] s = "793"  -> 793

\* s ? parseInt(s) : undefined   (an empty attribute string is falsy)
parseIntAttr(o) ==
  IF IsSome(o) /\ Get(o) # "" THEN Some(parseInt(Get(o))) ELSE None

\* DocxParser.parseFontSize: half-points to points, here tenths of a point
parseFontSize(sizeValue) ==
  IF ~IsSome(sizeValue) \/ Get(sizeValue) = "" THEN None
  ELSE LET numValue == parseInt(Get(sizeValue))
           points10 == numValue * 5
       IN  IF ParsesToNaN(Get(sizeValue)) \/ numValue <= 0 THEN None
           ELSE IF points10 < 40 \/ points10 > 720 THEN None
           ELSE Some(points10)

-----------------------------------------------------------------------------
(* XML nodes as xml2js delivers them (mergeAttrs, explicitArray: false) *)

\* run properties: rFonts.ascii, rFonts.hAnsi, sz.val, and the truthiness of b, i, u
RPr(ascii, hAnsi, sz, b, i, u) ==
  [ascii |-> ascii, hAnsi |-> hAnsi, sz |-> sz, b |-> b, i |-> i, u |-> u]
NoRPr == RPr(None, None, None, FALSE, FALSE, FALSE)
TimesRPr == RPr(Some("Times New Roman"), None, Some("24"), FALSE, FALSE, FALSE)

\* the value of run.t: absent when the run has no t node, the character data
\* of a single t node without attributes, an array with one string per t node
\* when there are several, and an object holding the character data and the
\* attribute when the t node carries one (xml:space="preserve")
TextAbsent == [kind |-> "absent", chars |-> <<>>]
TextString(s) == [kind |-> "string", chars |-> <<s>>]
TextArray(ss) == [kind |-> "array", chars |-> ss]
TextObject(s) == [kind |-> "object", chars |-> <<s>>]

RunNodeWith(t, rPr) == [t |-> t, rPr |-> rPr]
RunNode(t, rPr) == RunNodeWith(TextString(t), rPr)

Ind(firstLine, hanging) ==
  [left |-> None, right |-> None, firstLine |-> firstLine, hanging |-> hanging]
Spacing(line, lineRule, after) ==
  [before |-> None, after |-> after, line |-> line, lineRule |-> lineRule]
PPr(jc, ind, spacing) == [jc |-> jc, ind |-> ind, spacing |-> spacing, pStyle |-> None]
NoPPr == PPr(None, None, None)
Double == Some(Spacing(Some("480"), Some("auto"), None))

PNode(r, pPr) == [r |-> r, pPr |-> pPr]

LongText ==
  "This sentence stands for an ordinary body paragraph of an essay, long enough to pass one hundred characters."

\* the paragraph nodes the generated documents are built from
EmptyP == PNode(<<>>, NoPPr)
TitleP == PNode(<<RunNode("My Essay Title", TimesRPr)>>, PPr(Some("center"), None, Double))
BodyP ==
  PNode(<<RunNode("As shown (Smith 12), ", TimesRPr), RunNode("(Jones 3), (Lee 4).", TimesRPr)>>,
        PPr(None, Some(Ind(Some("720"), None)), Double))
LongP ==
  PNode(<<RunNode(LongText, TimesRPr)>>, PPr(Some("both"), Some(Ind(Some("720"), None)), Double))
BadP ==
  PNode(<<RunNode("See (Smith).", RPr(Some("Arial"), None, Some("28"), TRUE, FALSE, FALSE))>>,
        PPr(Some("right"), Some(Ind(Some("0"), None)),
            Some(Spacing(Some("240"), Some("auto"), None))))
BareP == PNode(<<RunNode("Bare paragraph", NoRPr)>>, NoPPr)
SpacingNoLineP ==
  PNode(<<RunNode("Spaced after", TimesRPr)>>,
        PPr(None, Some(Ind(Some("720"), None)), Some(Spacing(None, None, Some("200")))))
WorksCitedP == PNode(<<RunNode("Works Cited", TimesRPr)>>, PPr(Some("center"), None, Double))
EntryP ==
  PNode(<<RunNode("Smith, John. Book.", TimesRPr)>>, PPr(None, Some(Ind(None, Some("720"))), Double))
EntryNoIndP == PNode(<<RunNode("Adams, Amy. Paper.", TimesRPr)>>, PPr(None, None, Double))

HeadingLine(t) == PNode(<<RunNode(t, TimesRPr)>>, PPr(None, None, Double))
HeadingBlock ==
  <<HeadingLine("John Smith"), HeadingLine("Dr. Johnson"),
    HeadingLine("English 101"), HeadingLine("15 March 2024")>>

ParaPool ==
  {EmptyP, TitleP, BodyP, LongP, BadP, BareP, SpacingNoLineP, WorksCitedP, EntryP, EntryNoIndP}

\* style nodes of styles.xml
StyleNode(styleId, name, type, rPr) ==
  [styleId |-> styleId, name |-> name, type |-> type, rPr |-> rPr]
NormalStyle == StyleNode("Normal", Some("Normal"), Some("paragraph"), TimesRPr)
BareStyle == StyleNode("Strong", Some("Strong"), Some("character"), NoRPr)

\* the parsed trees: document.body.p, styles.style, the root element of settings.xml
WordXML(ps) == [document |-> [body |-> [p |-> ps]]]
StylesXML(ss) == [styles |-> [style |-> ss]]
SettingsXML == [root |-> "settings"]
OtherXML == [root |-> "other"]

-----------------------------------------------------------------------------
(* Text predicates: the string tests of the source, tabulated on the texts *)
(* the generated documents contain                                         *)

\* text.trim().length === 0
TrimIsEmpty(text) == text \in {"", " "}

\* text.toLowerCase().includes('works cited')
IncludesWorksCited(text) == text \in {"Works Cited"}

\* text.toLowerCase().includes('bibliography')
IncludesBibliography(text) == text \in {"Bibliography"}

\* /^[A-Z][a-z]+ [A-Z][a-z]+/.test(text.trim())
NamePattern(text) == text \in {"John Smith", "My Essay Title", "Works Cited"}

\* /^(Dr\.|Mr\.|Ms\.|Mrs\.|Professor)\s+[A-Z]/.test(text.trim())
InstructorPattern(text) == text \in {"Dr. Johnson"}

\* /\d{1,2}\/\d{1,2}\/\d{4}|\d{1,2} \w+ \d{4}|\w+ \d{1,2}, \d{4}/.test(text.trim())
DatePattern(text) == text \in {"15 March 2024"}

\* the matches of the four citation patterns, each applied with the g flag
CitationMatches(text) ==
  CASE text = "As shown (Smith 12), (Jones 3), (Lee 4)." -> 3
    [] text = "See (Smith)." -> 1
    [] OTHER -> 0

\* /^[A-Za-z]+\s+\d+$/.test(content.trim())
MlaHeaderPattern(content) == content \in {"Smith 1", " Smith 1 "}

\* /\d+/.test(content.trim())
HasPageNumber(content) == content \in {"Smith 1", " Smith 1 ", "Page 1 of 2"}

\* content.trim().length > 0
HeaderHasText(content) == content \notin {"", " "}

-----------------------------------------------------------------------------
(* DocxParser: projection of the parsed trees into the document model *)

RECURSIVE JoinText(_)
\* Array.prototype.join('') over strings
JoinText(ss) == IF ss = <<>> THEN "" ELSE Head(ss) \o JoinText(Tail(ss))

\* run.t ? (Array.isArray(run.t) ? run.t.join('') : run.t) : ''
\* (an object is returned as it is, here as a record)
RunText(t) ==
  CASE t.kind = "absent" -> ""
    [] t.kind = "string" -> t.chars[1]
    [] t.kind = "array"  -> JoinText(t.chars)
    [] t.kind = "object" -> [charData |-> t.chars[1], xmlSpace |-> "preserve"]

\* the string Array.prototype.join makes of an element: an object becomes
\* '[object Object]'
JoinedRunText(t) == IF t.kind = "object" THEN "[object Object]" ELSE RunText(t)

\* DocxParser.extractParagraphText
extractParagraphText(paragraph) ==
  IF paragraph.r = <<>> THEN ""
  ELSE JoinText([k \in 1..Len(paragraph.r) |-> JoinedRunText(paragraph.r[k].t)])

\* rPr.rFonts?.ascii || rPr.rFonts?.hAnsi
fontFamilyOf(rPr) ==
  IF IsSome(rPr.ascii) /\ Get(rPr.ascii) # "" THEN rPr.ascii ELSE rPr.hAnsi

\* DocxParser.parseRuns
parseRuns(paragraph) ==
  [k \in 1..Len(paragraph.r) |->
     LET run == paragraph.r[k]
         rPr == run.rPr
     IN  [text |-> RunText(run.t),
          formatting |-> [fontFamily |-> fontFamilyOf(rPr),
                          fontSize |-> parseFontSize(rPr.sz),
                          bold |-> rPr.b,
                          italic |-> rPr.i,
                          underline |-> rPr.u]]]

\* DocxParser.parseParagraph
parseParagraph(paragraph) ==
  LET pPr == paragraph.pPr
  IN  [text |-> extractParagraphText(paragraph),
       style |-> pPr.pStyle,
       runs |-> parseRuns(paragraph),
       alignment |-> IF IsSome(pPr.jc) /\ Get(pPr.jc) # "" THEN Get(pPr.jc) ELSE "left",
       indentation |->
         IF IsSome(pPr.ind)
         THEN Some([left |-> parseIntAttr(Get(pPr.ind).left),
                    right |-> parseIntAttr(Get(pPr.ind).right),
                    firstLine |-> parseIntAttr(Get(pPr.ind).firstLine),
                    hanging |-> parseIntAttr(Get(pPr.ind).hanging)])
         ELSE None,
       spacing |->
         IF IsSome(pPr.spacing)
         THEN Some([before |-> parseIntAttr(Get(pPr.spacing).before),
                    after |-> parseIntAttr(Get(pPr.spacing).after),
                    line |-> parseIntAttr(Get(pPr.spacing).line),
                    lineRule |-> IF IsSome(Get(pPr.spacing).lineRule)
                                    /\ Get(Get(pPr.spacing).lineRule) # ""
                                 THEN Get(Get(pPr.spacing).lineRule) ELSE "auto"])
         ELSE None]

\* DocxParser.extractParagraphs
extractParagraphs(wordXML) ==
  [k \in 1..Len(wordXML.document.body.p) |-> parseParagraph(wordXML.document.body.p[k])]

RECURSIVE JoinParagraphs(_)
\* Array.prototype.join('\n\n')
JoinParagraphs(ts) ==
  IF ts = <<>> THEN ""
  ELSE IF Len(ts) = 1 THEN ts[1]
  ELSE ts[1] \o "\n\n" \o JoinParagraphs(Tail(ts))

\* DocxParser.extractTextContent
extractTextContent(wordXML) ==
  LET texts == [k \in 1..Len(wordXML.document.body.p) |->
                  extractParagraphText(wordXML.document.body.p[k])]
  IN  JoinParagraphs(SelectSeq(texts, LAMBDA t : ~TrimIsEmpty(t)))

\* DocxParser.parseStyle (the paragraph properties of a style, which no rule
\* reads, are not carried)
parseStyle(style) ==
  [name |-> IF IsSome(style.name) /\ Get(style.name) # "" THEN Get(style.name)
            ELSE style.styleId,
   type |-> IF IsSome(style.type) /\ Get(style.type) # "" THEN Get(style.type)
            ELSE "paragraph",
   fontFamily |-> fontFamilyOf(style.rPr),
   fontSize |-> parseFontSize(style.rPr.sz),
   bold |-> style.rPr.b,
   italic |-> style.rPr.i,
   underline |-> style.rPr.u]

\* DocxParser.extractStyles
extractStyles(stylesXML) ==
  [k \in 1..Len(stylesXML.styles.style) |-> parseStyle(stylesXML.styles.style[k])]

\* DocxParser.extractPageSettings
\* fault variant of extractPageSettings: the defaults whatever the root is
extractPageSettingsAnyRoot(settingsXML) ==
  Some([margins |-> [top |-> 1440, bottom |-> 1440, left |-> 1440, right |-> 1440],
        pageSize |-> [width |-> 12240, height |-> 15840],
        orientation |-> "portrait"])

\* DocxParser.extractPageSettings
extractPageSettings(settingsXML) ==
  IF settingsXML.root # "settings" THEN None
  ELSE Some([margins |-> [top |-> 1440, bottom |-> 1440, left |-> 1440, right |-> 1440],
             pageSize |-> [width |-> 12240, height |-> 15840],
             orientation |-> "portrait"])

-----------------------------------------------------------------------------
(* DocxParser.parseDocx: the archive, its parts, and the parse of each part *)

\* a part of the archive: no entry, an entry with empty text, an entry whose
\* text is not well-formed XML, or an entry that parses to a tree
AbsentPart == [kind |-> "absent"]
EmptyPart == [kind |-> "empty"]
MalformedPart == [kind |-> "malformed"]
XmlPart(tree) == [kind |-> "xml", tree |-> tree]

OptionalParts == {"styles", "settings", "numbering", "footnotes", "relationships"}

\* zip.file(path)?.async('text') yields a truthy string
HasText(part) == part.kind \in {"malformed", "xml"}

\* DocxParser.parseXmlAsync rejects
ParseRejects(part) == part.kind = "malformed"

\* xmlText ? this.parseXmlAsync(xmlText) : null, once Promise.all has resolved
ParsedOrNull(part) == IF HasText(part) THEN Some(part.tree) ELSE None

Thrown(message) == [ok |-> FALSE, message |-> message]
Returned(value) == [ok |-> TRUE, value |-> value]

\* the catch clause of parseDocx
Rethrown(cause) == Thrown("Failed to parse DOCX file: " \o cause)

\* DocxParser.parseDocx
parseDocx(f) ==
  IF f.zip # "ok" THEN Rethrown("Corrupted zip")
  ELSE IF ~HasText(f.parts.document)
  THEN Rethrown("Invalid DOCX file: document.xml not found")
  ELSE IF ParseRejects(f.parts.document)
          \/ \E name \in OptionalParts : ParseRejects(f.parts[name])
  THEN Rethrown("XML parse error")
  ELSE Returned([content |-> extractTextContent(f.parts.document.tree),
                 styles |-> ParsedOrNull(f.parts.styles),
                 settings |-> ParsedOrNull(f.parts.settings),
                 wordXML |-> f.parts.document.tree,
                 numbering |-> ParsedOrNull(f.parts.numbering),
                 footnotes |-> ParsedOrNull(f.parts.footnotes),
                 relationships |-> ParsedOrNull(f.parts.relationships),
                 \* the returned object has no headers property
                 headers |-> None])

-----------------------------------------------------------------------------
(* MLARulesEngine: the rule catalog and the helpers of the checks *)

Rule(id, name, severity, category) ==
  [id |-> id, name |-> name, severity |-> severity, category |-> category]

\* fault variant of MLA_RULES: a rule registered with the severity 'info',
\* which the MLARule type admits
MLA_RULES_WithInfo ==
  <<Rule("font-family", "Font Family", "error", "formatting"),
    Rule("font-size", "Font Size", "error", "formatting"),
    Rule("line-spacing", "Line Spacing", "error", "formatting"),
    Rule("margins", "Page Margins", "error", "page-setup"),
    Rule("first-line-indent", "First Line Indent", "error", "formatting"),
    Rule("header-format", "Header Format", "warning", "page-setup"),
    Rule("title-formatting", "Title Formatting", "warning", "structure"),
    Rule("works-cited", "Works Cited", "info", "structure"),
    Rule("paragraph-alignment", "Paragraph Alignment", "error", "formatting"),
    Rule("excessive-formatting", "Excessive Formatting", "warning", "formatting"),
    Rule("heading-format", "MLA Heading Format", "error", "structure"),
    Rule("paper-size", "Paper Size", "warning", "page-setup"),
    Rule("hanging-indent-works-cited", "Works Cited Hanging Indent", "error", "structure"),
    Rule("in-text-citations", "In-Text Citations", "warning", "citations"),
    Rule("works-cited-alphabetical", "Works Cited Alphabetical Order", "error", "structure")>>

\* MLARulesEngine.MLA_RULES
MLA_RULES ==
  <<Rule("font-family", "Font Family", "error", "formatting"),
    Rule("font-size", "Font Size", "error", "formatting"),
    Rule("line-spacing", "Line Spacing", "error", "formatting"),
    Rule("margins", "Page Margins", "error", "page-setup"),
    Rule("first-line-indent", "First Line Indent", "error", "formatting"),
    Rule("header-format", "Header Format", "warning", "page-setup"),
    Rule("title-formatting", "Title Formatting", "warning", "structure"),
    Rule("works-cited", "Works Cited", "warning", "structure"),
    Rule("paragraph-alignment", "Paragraph Alignment", "error", "formatting"),
    Rule("excessive-formatting", "Excessive Formatting", "warning", "formatting"),
    Rule("heading-format", "MLA Heading Format", "error", "structure"),
    Rule("paper-size", "Paper Size", "warning", "page-setup"),
    Rule("hanging-indent-works-cited", "Works Cited Hanging Indent", "error", "structure"),
    Rule("in-text-citations", "In-Text Citations", "warning", "citations"),
    Rule("works-cited-alphabetical", "Works Cited Alphabetical Order", "error", "structure")>>

\* this.MLA_RULES.find(r => r.id === id)!
FindRule(id) == MLA_RULES[CHOOSE k \in 1..Len(MLA_RULES) : MLA_RULES[k].id = id]

\* the details string of a result: its fixed wording, the numbers and the
\* items interpolated into it
Details(text, nums, items) == [text |-> text, nums |-> nums, items |-> items]

\* an MLACheckResult; affectedElements is optional
Result(id, status, details, affectedElements) ==
  [rule |-> FindRule(id), status |-> status, details |-> details,
   affectedElements |-> affectedElements]

ParagraphLabel(i) == "Paragraph " \o ToString(i)

RECURSIVE SumSeq(_)
SumSeq(ns) == IF ns = <<>> THEN 0 ELSE Head(ns) + SumSeq(Tail(ns))

\* Array.prototype.slice(0, n)
Take(s, n) == SubSeq(s, 1, IF Len(s) < n THEN Len(s) ELSE n)

\* the 1-based indices i of s with Test(i), in order
IndicesWhere(s, Test(_)) == SelectSeq(Indices(s), Test)

\* the labels `Paragraph ${index + 1}` pushed for the indices with Test, in order
LabelsWhere(s, Test(_)) ==
  LET found == IndicesWhere(s, Test)
  IN  [k \in 1..Len(found) |-> ParagraphLabel(found[k])]

NonEmpty(p) == ~TrimIsEmpty(p.text)

\* MLARulesEngine.isTimesNewRomanFont, on the families of the generated documents
isTimesNewRomanFont(fontFamily) ==
  fontFamily \in {"Times New Roman", "times", "TNR", "TIMES NEW ROMAN"}

\* fault variant of isDoubleSpaced: the exact rule given the range of the auto rule
isDoubleSpacedOneRange(paragraph) ==
  IF ~IsSome(paragraph.spacing) THEN FALSE
  ELSE LET line == Get(paragraph.spacing).line
       IN  IsSome(line) /\ Get(line) >= 450 /\ Get(line) <= 520

\* MLARulesEngine.isDoubleSpaced
isDoubleSpaced(paragraph) ==
  IF ~IsSome(paragraph.spacing) THEN FALSE
  ELSE LET line == Get(paragraph.spacing).line
           lineRule == Get(paragraph.spacing).lineRule
       IN  IF lineRule = "auto" THEN IsSome(line) /\ Get(line) >= 450 /\ Get(line) <= 520
           ELSE IF lineRule = "exact" THEN IsSome(line) /\ Abs(Get(line) - 480) <= 50
           ELSE IF IsSome(line) THEN Get(line) >= 450 /\ Get(line) <= 520
           ELSE FALSE

\* MLARulesEngine.isPotentialTitle (index is 1-based here)
isPotentialTitle(paragraph, index, allParagraphs) ==
  LET nonEmptyIndex == CountOf(SubSeq(allParagraphs, 1, index), NonEmpty)
  IN  nonEmptyIndex <= 3 /\ (paragraph.alignment = "center" \/ Len(paragraph.text) < 100)

\* fault variant of findTitle: centered text looked for in the first three
\* paragraphs only
findTitleFirstThree(paragraphs) ==
  LET n == Len(paragraphs)
      centered == {i \in 1..(IF n < 3 THEN n ELSE 3) :
                     NonEmpty(paragraphs[i]) /\ paragraphs[i].alignment = "center"}
      nonEmpty == {i \in 1..(IF n < 3 THEN n ELSE 3) : NonEmpty(paragraphs[i])}
      Min(S) == CHOOSE i \in S : \A j \in S : i <= j
  IN  IF centered # {} THEN Some(Min(centered))
      ELSE IF nonEmpty # {} THEN Some(Min(nonEmpty))
      ELSE None

\* MLARulesEngine.findTitle: the 1-based index of the title, or None
findTitle(paragraphs) ==
  LET n == Len(paragraphs)
      centered == {i \in 1..(IF n < 5 THEN n ELSE 5) :
                     NonEmpty(paragraphs[i]) /\ paragraphs[i].alignment = "center"}
      nonEmpty == {i \in 1..(IF n < 3 THEN n ELSE 3) : NonEmpty(paragraphs[i])}
      Min(S) == CHOOSE i \in S : \A j \in S : i <= j
  IN  IF centered # {} THEN Some(Min(centered))
      ELSE IF nonEmpty # {} THEN Some(Min(nonEmpty))
      ELSE None

-----------------------------------------------------------------------------
(* MLARulesEngine: the checks *)

\* a truthy optional string
TruthyStr(o) == IsSome(o) /\ Get(o) # ""

\* styles.find(Normal paragraph) || styles.find(paragraph) || {undefined, undefined}
DefaultStyle(styles) ==
  LET normal == {k \in 1..Len(styles) :
                   styles[k].type = "paragraph" /\ styles[k].name = "Normal"}
      para == {k \in 1..Len(styles) : styles[k].type = "paragraph"}
      Min(S) == CHOOSE i \in S : \A j \in S : i <= j
  IN  IF normal # {} THEN styles[Min(normal)]
      ELSE IF para # {} THEN styles[Min(para)]
      ELSE [fontFamily |-> None, fontSize |-> None]

\* run.formatting.fontFamily || defaultStyle.fontFamily
EffectiveFontFamily(run, defaultStyle) ==
  IF TruthyStr(run.formatting.fontFamily) THEN run.formatting.fontFamily
  ELSE defaultStyle.fontFamily

\* run.formatting.fontSize || defaultStyle.fontSize
EffectiveFontSize(run, defaultStyle) ==
  OrElse(run.formatting.fontSize, defaultStyle.fontSize)

WrongFamily(run, defaultStyle) ==
  /\ TruthyStr(EffectiveFontFamily(run, defaultStyle))
  /\ ~isTimesNewRomanFont(Get(EffectiveFontFamily(run, defaultStyle)))

\* fault variant of WrongSize: sizes up to two points off accepted
WrongSizeLoose(run, defaultStyle) ==
  /\ IsSome(EffectiveFontSize(run, defaultStyle))
  /\ Abs(Get(EffectiveFontSize(run, defaultStyle)) - 120) > 20

\* Math.abs(effectiveFontSize - 12) > 0.1, in tenths of a point
WrongSize(run, defaultStyle) ==
  /\ IsSome(EffectiveFontSize(run, defaultStyle))
  /\ Abs(Get(EffectiveFontSize(run, defaultStyle)) - 120) > 1

\* MLARulesEngine.checkFontFormatting
checkFontFormatting(paragraphs, styles) ==
  LET defaultStyle == DefaultStyle(styles)
      RunCount(Test(_)) ==
        SumSeq([i \in 1..Len(paragraphs) |-> CountOf(paragraphs[i].runs, Test)])
      totalFontChecks == RunCount(LAMBDA run : TRUE)
      explicitFontFamilyCount == RunCount(LAMBDA run : TruthyStr(run.formatting.fontFamily))
      explicitFontSizeCount == RunCount(LAMBDA run : IsSome(run.formatting.fontSize))
      nonTimesNewRomanCount == RunCount(LAMBDA run : WrongFamily(run, defaultStyle))
      wrongFontSizeCount == RunCount(LAMBDA run : WrongSize(run, defaultStyle))
      \* one list for both rules: a paragraph is pushed when one of its runs
      \* has a wrong family or a wrong size
      affectedElements ==
        LabelsWhere(paragraphs, LAMBDA i :
          \E r \in 1..Len(paragraphs[i].runs) :
             \/ WrongFamily(paragraphs[i].runs[r], defaultStyle)
             \/ WrongSize(paragraphs[i].runs[r], defaultStyle))
      hasAnyFontFamilyInfo == explicitFontFamilyCount > 0 \/ IsSome(defaultStyle.fontFamily)
      hasAnyFontSizeInfo == explicitFontSizeCount > 0 \/ IsSome(defaultStyle.fontSize)
      fontFamilyPassed == nonTimesNewRomanCount = 0
      fontSizePassed == wrongFontSizeCount = 0
      familyResult ==
        IF ~hasAnyFontFamilyInfo
        THEN Result("font-family", "unable_to_verify",
                    Details("No font family information found", <<totalFontChecks>>, <<>>),
                    Some(<<>>))
        ELSE IF fontFamilyPassed
        THEN Result("font-family", "passed",
                    Details("All text uses Times New Roman font family",
                            <<explicitFontFamilyCount,
                              IF TruthyStr(defaultStyle.fontFamily) THEN 1 ELSE 0>>, <<>>),
                    Some(<<>>))
        ELSE Result("font-family", "failed",
                    Details("Found instances of non-Times New Roman fonts",
                            <<nonTimesNewRomanCount>>, <<>>),
                    Some(affectedElements))
      sizeResult ==
        IF ~hasAnyFontSizeInfo
        THEN Result("font-size", "unable_to_verify",
                    Details("No font size information found", <<totalFontChecks>>, <<>>),
                    Some(<<>>))
        ELSE IF fontSizePassed
        THEN Result("font-size", "passed",
                    Details("All text uses 12-point font size",
                            <<explicitFontSizeCount,
                              IF IsSome(defaultStyle.fontSize) THEN 1 ELSE 0>>, <<>>),
                    Some(<<>>))
        ELSE Result("font-size", "failed",
                    Details("Found instances of incorrect font sizes", <<wrongFontSizeCount>>, <<>>),
                    Some(affectedElements))
  IN  <<familyResult, sizeResult>>

\* fault variant of checkLineSpacing: unable to verify from one half without
\* spacing data on
checkLineSpacingFromHalf(paragraphs) ==
  LET totalParagraphs == CountOf(paragraphs, NonEmpty)
      noSpacingInfoCount ==
        CountOf(paragraphs, LAMBDA p : NonEmpty(p) /\ ~IsSome(p.spacing))
      Incorrect(p) == NonEmpty(p) /\ IsSome(p.spacing) /\ ~isDoubleSpaced(p)
      affectedElements == LabelsWhere(paragraphs, LAMBDA i : Incorrect(paragraphs[i]))
  IN  IF totalParagraphs > 0 /\ 2 * noSpacingInfoCount >= totalParagraphs
      THEN <<Result("line-spacing", "unable_to_verify",
                    Details("No line spacing information found",
                            <<noSpacingInfoCount, totalParagraphs>>, <<>>),
                    Some(<<>>))>>
      ELSE IF CountOf(paragraphs, Incorrect) = 0
      THEN <<Result("line-spacing", "passed",
                    Details("Document uses double-spacing throughout",
                            <<totalParagraphs - noSpacingInfoCount, totalParagraphs>>, <<>>),
                    Some(<<>>))>>
      ELSE <<Result("line-spacing", "failed",
                    Details("Found paragraphs with incorrect line spacing",
                            <<CountOf(paragraphs, Incorrect)>>, <<>>),
                    Some(affectedElements))>>

\* MLARulesEngine.checkLineSpacing
checkLineSpacing(paragraphs) ==
  LET totalParagraphs == CountOf(paragraphs, NonEmpty)
      noSpacingInfoCount ==
        CountOf(paragraphs, LAMBDA p : NonEmpty(p) /\ ~IsSome(p.spacing))
      Incorrect(p) == NonEmpty(p) /\ IsSome(p.spacing) /\ ~isDoubleSpaced(p)
      incorrectSpacingCount == CountOf(paragraphs, Incorrect)
      affectedElements == LabelsWhere(paragraphs, LAMBDA i : Incorrect(paragraphs[i]))
      passed == incorrectSpacingCount = 0
  IN  IF 2 * noSpacingInfoCount > totalParagraphs
      THEN <<Result("line-spacing", "unable_to_verify",
                    Details("No line spacing information found",
                            <<noSpacingInfoCount, totalParagraphs>>, <<>>),
                    Some(<<>>))>>
      ELSE IF passed
      THEN <<Result("line-spacing", "passed",
                    Details("Document uses double-spacing throughout",
                            <<totalParagraphs - noSpacingInfoCount, totalParagraphs>>, <<>>),
                    Some(<<>>))>>
      ELSE <<Result("line-spacing", "failed",
                    Details("Found paragraphs with incorrect line spacing",
                            <<incorrectSpacingCount>>, <<>>),
                    Some(affectedElements))>>

\* fault variant of checkPageMargins: missing page settings reported as a failure
checkPageMarginsNullFails(pageSettings) ==
  IF ~IsSome(pageSettings)
  THEN <<Result("margins", "failed",
                Details("Could not determine page margin settings from document", <<>>, <<>>),
                None)>>
  ELSE <<Result("margins", "passed",
                Details("All page margins are set to 1 inch", <<>>, <<>>), None)>>

\* fault variant of checkPageMargins: the tolerance taken as exclusive
checkPageMarginsExclusive(pageSettings) ==
  IF ~IsSome(pageSettings)
  THEN <<Result("margins", "unable_to_verify",
                Details("Could not determine page margin settings from document", <<>>, <<>>),
                None)>>
  ELSE LET margins == Get(pageSettings).margins
           marginsCorrect ==
             /\ Abs(margins.top - 1440) < 72
             /\ Abs(margins.bottom - 1440) < 72
             /\ Abs(margins.left - 1440) < 72
             /\ Abs(margins.right - 1440) < 72
       IN  IF marginsCorrect
           THEN <<Result("margins", "passed",
                         Details("All page margins are set to 1 inch", <<>>, <<>>), None)>>
           ELSE <<Result("margins", "failed",
                         Details("Page margins are not set to 1 inch",
                                 <<margins.top, margins.bottom, margins.left, margins.right>>,
                                 <<>>),
                         None)>>

\* MLARulesEngine.checkPageMargins
checkPageMargins(pageSettings) ==
  IF ~IsSome(pageSettings)
  THEN <<Result("margins", "unable_to_verify",
                Details("Could not determine page margin settings from document", <<>>, <<>>),
                None)>>
  ELSE LET oneInch == 1440
           tolerance == 72
           margins == Get(pageSettings).margins
           marginsCorrect ==
             /\ Abs(margins.top - oneInch) <= tolerance
             /\ Abs(margins.bottom - oneInch) <= tolerance
             /\ Abs(margins.left - oneInch) <= tolerance
             /\ Abs(margins.right - oneInch) <= tolerance
       IN  IF marginsCorrect
           THEN <<Result("margins", "passed",
                         Details("All page margins are set to 1 inch", <<>>, <<>>), None)>>
           ELSE <<Result("margins", "failed",
                         Details("Page margins are not set to 1 inch",
                                 <<margins.top, margins.bottom, margins.left, margins.right>>,
                                 <<>>),
                         None)>>

\* fault variant of checkFirstLineIndent: an eligible paragraph without a
\* firstLine value counted as incorrectly indented
checkFirstLineIndentMissingFails(paragraphs) ==
  LET Eligible(p) == NonEmpty(p) /\ p.alignment # "center"
      NoInfo(p) == ~IsSome(p.indentation) \/ ~IsSome(Get(p.indentation).firstLine)
      Incorrect(p) ==
        /\ Eligible(p)
        /\ (NoInfo(p) \/ ~(Abs(Get(Get(p.indentation).firstLine) - 720) <= 72))
      totalBodyParagraphs == CountOf(paragraphs, Eligible)
      noIndentInfoCount == CountOf(paragraphs, LAMBDA p : Eligible(p) /\ NoInfo(p))
  IN  IF 2 * noIndentInfoCount > totalBodyParagraphs
      THEN <<Result("first-line-indent", "unable_to_verify",
                    Details("No indentation information found",
                            <<noIndentInfoCount, totalBodyParagraphs>>, <<>>),
                    Some(<<>>))>>
      ELSE IF CountOf(paragraphs, Incorrect) = 0
      THEN <<Result("first-line-indent", "passed",
                    Details("All paragraphs have correct 0.5-inch first-line indent",
                            <<totalBodyParagraphs - noIndentInfoCount, totalBodyParagraphs>>,
                            <<>>),
                    Some(<<>>))>>
      ELSE <<Result("first-line-indent", "failed",
                    Details("Found paragraphs without proper first-line indent",
                            <<CountOf(paragraphs, Incorrect)>>, <<>>),
                    Some(LabelsWhere(paragraphs, LAMBDA i : Incorrect(paragraphs[i]))))>>

\* MLARulesEngine.checkFirstLineIndent
checkFirstLineIndent(paragraphs) ==
  LET halfInch == 720
      tolerance == 72
      Eligible(p) == NonEmpty(p) /\ p.alignment # "center"
      NoInfo(p) == ~IsSome(p.indentation) \/ ~IsSome(Get(p.indentation).firstLine)
      Incorrect(p) ==
        /\ Eligible(p)
        /\ ~NoInfo(p)
        /\ ~(Abs(Get(Get(p.indentation).firstLine) - halfInch) <= tolerance)
      totalBodyParagraphs == CountOf(paragraphs, Eligible)
      noIndentInfoCount == CountOf(paragraphs, LAMBDA p : Eligible(p) /\ NoInfo(p))
      incorrectIndentCount == CountOf(paragraphs, Incorrect)
      affectedElements == LabelsWhere(paragraphs, LAMBDA i : Incorrect(paragraphs[i]))
      passed == incorrectIndentCount = 0
  IN  IF 2 * noIndentInfoCount > totalBodyParagraphs
      THEN <<Result("first-line-indent", "unable_to_verify",
                    Details("No indentation information found",
                            <<noIndentInfoCount, totalBodyParagraphs>>, <<>>),
                    Some(<<>>))>>
      ELSE IF passed
      THEN <<Result("first-line-indent", "passed",
                    Details("All paragraphs have correct 0.5-inch first-line indent",
                            <<totalBodyParagraphs - noIndentInfoCount, totalBodyParagraphs>>,
                            <<>>),
                    Some(<<>>))>>
      ELSE <<Result("first-line-indent", "failed",
                    Details("Found paragraphs without proper first-line indent",
                            <<incorrectIndentCount>>, <<>>),
                    Some(affectedElements))>>

\* one header of checkHeaderFormat: the issue it pushes, or <<>> when it is
\* a right-aligned "name number" header
HeaderIssue(header, index) ==
  LET isRightAligned ==
        \E k \in 1..Len(header.paragraphs) :
           header.paragraphs[k].alignment \in {"right", "end"}
      label == "Header " \o ToString(index) \o ": "
  IN  IF MlaHeaderPattern(header.content)
      THEN IF isRightAligned THEN <<>>
           ELSE <<label \o "Contains name and page number but not right-aligned">>
      ELSE IF ~HeaderHasText(header.content) THEN <<label \o "Empty header">>
      ELSE IF ~HasPageNumber(header.content) THEN <<label \o "Missing page number">>
      ELSE <<label \o "Should follow format Last Name [page number]">>

RECURSIVE Flatten(_)
Flatten(ss) == IF ss = <<>> THEN <<>> ELSE Head(ss) \o Flatten(Tail(ss))

\* fault variant of checkHeaderFormat: the alignment of a matching header ignored
checkHeaderFormatAnyAlignment(headers) ==
  IF ~IsSome(headers) \/ Len(Get(headers)) = 0
  THEN <<Result("header-format", "unable_to_verify",
                Details("No header information found in document", <<>>, <<>>), None)>>
  ELSE LET hs == Get(headers)
           headerIssues == Flatten([k \in 1..Len(hs) |-> HeaderIssue(hs[k], k)])
       IN  IF \E k \in 1..Len(hs) : MlaHeaderPattern(hs[k].content)
           THEN <<Result("header-format", "passed",
                         Details("Header contains last name and page number, right-aligned",
                                 <<>>, <<>>),
                         None)>>
           ELSE <<Result("header-format", "failed",
                         Details("Header format issues", <<>>, headerIssues),
                         Some(<<"Document header">>))>>

\* MLARulesEngine.checkHeaderFormat
checkHeaderFormat(headers) ==
  IF ~IsSome(headers) \/ Len(Get(headers)) = 0
  THEN <<Result("header-format", "unable_to_verify",
                Details("No header information found in document", <<>>, <<>>), None)>>
  ELSE LET hs == Get(headers)
           hasCorrectFormat ==
             \E k \in 1..Len(hs) :
                /\ MlaHeaderPattern(hs[k].content)
                /\ \E j \in 1..Len(hs[k].paragraphs) :
                      hs[k].paragraphs[j].alignment \in {"right", "end"}
           headerIssues == Flatten([k \in 1..Len(hs) |-> HeaderIssue(hs[k], k)])
       IN  IF hasCorrectFormat
           THEN <<Result("header-format", "passed",
                         Details("Header contains last name and page number, right-aligned",
                                 <<>>, <<>>),
                         None)>>
           ELSE <<Result("header-format", "failed",
                         IF Len(headerIssues) > 0
                         THEN Details("Header format issues", <<>>, headerIssues)
                         ELSE Details("Header does not follow MLA format requirements",
                                      <<>>, <<>>),
                         Some(<<"Document header">>))>>

\* fault variant of checkMLAHeadingFormat: all four signals required
checkMLAHeadingFormatAllFour(paragraphs) ==
  LET firstFewParagraphs == SelectSeq(Take(paragraphs, 8), NonEmpty)
      firstFour == Take(firstFewParagraphs, 4)
      hasNamePattern == NamePattern(firstFour[1].text)
      hasInstructorPattern == InstructorPattern(firstFour[2].text)
      hasDatePattern == \E k \in 1..Len(firstFour) : DatePattern(firstFour[k].text)
      hasCorrectAlignment ==
        \A k \in 1..Len(firstFour) : firstFour[k].alignment \in {"", "left", "start"}
      score == (IF hasNamePattern THEN 1 ELSE 0) + (IF hasInstructorPattern THEN 1 ELSE 0)
               + (IF hasDatePattern THEN 1 ELSE 0) + (IF hasCorrectAlignment THEN 1 ELSE 0)
      issues ==
        (IF ~hasNamePattern THEN <<"Student name not found or improperly formatted">> ELSE <<>>)
        \o (IF ~hasInstructorPattern THEN <<"Instructor name not found">> ELSE <<>>)
        \o (IF ~hasDatePattern THEN <<"Date not found or improperly formatted">> ELSE <<>>)
        \o (IF ~hasCorrectAlignment THEN <<"Heading should be left-aligned">> ELSE <<>>)
  IN  IF Len(firstFewParagraphs) < 4
      THEN <<Result("heading-format", "failed",
                    Details("MLA heading format not found", <<>>, <<>>),
                    Some(<<"Document beginning">>))>>
      ELSE IF score >= 4
      THEN <<Result("heading-format", "passed",
                    Details("Document contains proper MLA heading format", <<>>, <<>>), None)>>
      ELSE <<Result("heading-format", "failed",
                    Details("MLA heading issues", <<>>, issues),
                    Some([i \in 1..Len(firstFour) |-> ParagraphLabel(i)]))>>

\* MLARulesEngine.checkMLAHeadingFormat
checkMLAHeadingFormat(paragraphs) ==
  LET firstFewParagraphs == SelectSeq(Take(paragraphs, 8), NonEmpty)
      firstFour == Take(firstFewParagraphs, 4)
      hasNamePattern == NamePattern(firstFour[1].text)
      hasInstructorPattern == InstructorPattern(firstFour[2].text)
      hasDatePattern == \E k \in 1..Len(firstFour) : DatePattern(firstFour[k].text)
      hasCorrectAlignment ==
        \A k \in 1..Len(firstFour) : firstFour[k].alignment \in {"", "left", "start"}
      score == (IF hasNamePattern THEN 1 ELSE 0) + (IF hasInstructorPattern THEN 1 ELSE 0)
               + (IF hasDatePattern THEN 1 ELSE 0) + (IF hasCorrectAlignment THEN 1 ELSE 0)
      issues ==
        (IF ~hasNamePattern THEN <<"Student name not found or improperly formatted">> ELSE <<>>)
        \o (IF ~hasInstructorPattern THEN <<"Instructor name not found">> ELSE <<>>)
        \o (IF ~hasDatePattern THEN <<"Date not found or improperly formatted">> ELSE <<>>)
        \o (IF ~hasCorrectAlignment THEN <<"Heading should be left-aligned">> ELSE <<>>)
  IN  IF Len(firstFewParagraphs) < 4
      THEN <<Result("heading-format", "failed",
                    Details("MLA heading format not found", <<>>, <<>>),
                    Some(<<"Document beginning">>))>>
      ELSE IF score >= 3
      THEN <<Result("heading-format", "passed",
                    Details("Document contains proper MLA heading format", <<>>, <<>>), None)>>
      ELSE <<Result("heading-format", "failed",
                    Details("MLA heading issues", <<>>, issues),
                    Some([i \in 1..Len(firstFour) |-> ParagraphLabel(i)]))>>

\* MLARulesEngine.checkPaperSize
checkPaperSize(pageSettings) ==
  IF ~IsSome(pageSettings)
  THEN <<Result("paper-size", "unable_to_verify",
                Details("Could not determine paper size settings from document", <<>>, <<>>),
                None)>>
  ELSE LET letterWidth == 12240
           letterHeight == 15840
           tolerance == 144
           pageSize == Get(pageSettings).pageSize
           isCorrectSize ==
             /\ Abs(pageSize.width - letterWidth) <= tolerance
             /\ Abs(pageSize.height - letterHeight) <= tolerance
       IN  IF isCorrectSize
           THEN <<Result("paper-size", "passed",
                         Details("Document is formatted for standard paper size", <<>>, <<>>),
                         None)>>
           ELSE <<Result("paper-size", "failed",
                         Details("Paper size is not standard",
                                 <<pageSize.width, pageSize.height>>, <<>>),
                         None)>>

\* fault variant of IsWorksCitedHeading: 'bibliography' not looked for
IsWorksCitedHeadingOnly(p) == IncludesWorksCited(p.text)

\* p.text.toLowerCase().includes('works cited') || ...includes('bibliography')
IsWorksCitedHeading(p) == IncludesWorksCited(p.text) \/ IncludesBibliography(p.text)

\* MLARulesEngine.checkWorksCitedFormatting
checkWorksCitedFormatting(paragraphs) ==
  LET found == {i \in 1..Len(paragraphs) : IsWorksCitedHeading(paragraphs[i])}
      \* 1-based index of the heading (findIndex + 1)
      worksCitedStart == CHOOSE i \in found : \A j \in found : i <= j
      citationParagraphs ==
        SelectSeq(SubSeq(paragraphs, worksCitedStart + 1, Len(paragraphs)), NonEmpty)
      hangingIndent == 720
      tolerance == 72
      Correct(p) ==
        /\ IsSome(p.indentation)
        /\ IsSome(Get(p.indentation).hanging)
        /\ Get(Get(p.indentation).hanging) # 0
        /\ Abs(Get(Get(p.indentation).hanging) - hangingIndent) <= tolerance
      correctlyFormattedCount == CountOf(citationParagraphs, Correct)
  IN  IF found = {}
      THEN <<Result("hanging-indent-works-cited", "unable_to_verify",
                    Details("No Works Cited section found", <<>>, <<>>), None)>>
      ELSE IF Len(citationParagraphs) = 0
      THEN <<Result("hanging-indent-works-cited", "failed",
                    Details("Works Cited page found but contains no citations", <<>>, <<>>),
                    Some(<<ParagraphLabel(worksCitedStart)>>))>>
      ELSE IF correctlyFormattedCount = Len(citationParagraphs)
      THEN <<Result("hanging-indent-works-cited", "passed",
                    Details("All Works Cited entries have proper hanging indent",
                            <<Len(citationParagraphs)>>, <<>>),
                    None)>>
      ELSE IF correctlyFormattedCount > 0
      THEN <<Result("hanging-indent-works-cited", "failed",
                    Details("Only some Works Cited entries have hanging indent",
                            <<correctlyFormattedCount, Len(citationParagraphs)>>, <<>>),
                    Some(<<"Works Cited entries">>))>>
      ELSE <<Result("hanging-indent-works-cited", "failed",
                    Details("Works Cited entries do not have hanging indent formatting",
                            <<>>, <<>>),
                    Some(<<"Works Cited entries">>))>>

\* MLARulesEngine.checkInTextCitations
checkInTextCitations(paragraphs) ==
  LET bodyParagraphs ==
        SelectSeq(paragraphs, LAMBDA p :
          NonEmpty(p) /\ ~IncludesWorksCited(p.text) /\ p.alignment # "center")
      paragraphsWithCitations == CountOf(bodyParagraphs, LAMBDA p : CitationMatches(p.text) > 0)
      citationCount ==
        SumSeq([k \in 1..Len(bodyParagraphs) |-> CitationMatches(bodyParagraphs[k].text)])
  IN  IF citationCount = 0
      THEN <<Result("in-text-citations", "failed",
                    Details("No in-text citations found in document", <<>>, <<>>),
                    Some(<<"Document body">>))>>
      ELSE IF citationCount < 3
      THEN <<Result("in-text-citations", "failed",
                    Details("Only a few in-text citations found", <<citationCount>>, <<>>),
                    Some(<<ToString(paragraphsWithCitations) \o " paragraphs with citations">>))>>
      ELSE <<Result("in-text-citations", "passed",
                    Details("Found in-text citations",
                            <<citationCount, paragraphsWithCitations>>, <<>>),
                    None)>>

\* MLARulesEngine.checkParagraphAlignment
checkParagraphAlignment(paragraphs) ==
  LET Incorrect(i) ==
        /\ NonEmpty(paragraphs[i])
        /\ ~isPotentialTitle(paragraphs[i], i, paragraphs)
        /\ paragraphs[i].alignment \notin {"", "left", "start"}
      affectedElements == LabelsWhere(paragraphs, Incorrect)
      incorrectAlignmentCount == Len(affectedElements)
      passed == incorrectAlignmentCount = 0
  IN  IF passed
      THEN <<Result("paragraph-alignment", "passed",
                    Details("All body paragraphs are properly left-aligned", <<>>, <<>>),
                    Some(<<>>))>>
      ELSE <<Result("paragraph-alignment", "failed",
                    Details("Found paragraphs with incorrect alignment",
                            <<incorrectAlignmentCount>>, <<>>),
                    Some(affectedElements))>>

\* MLARulesEngine.checkTitleFormatting
checkTitleFormatting(paragraphs) ==
  LET title == findTitle(paragraphs)
      paragraph == paragraphs[Get(title)]
      isCentered == paragraph.alignment = "center"
      hasExcessiveFormatting ==
        \E k \in 1..Len(paragraph.runs) :
           \/ paragraph.runs[k].formatting.bold
           \/ paragraph.runs[k].formatting.italic
           \/ paragraph.runs[k].formatting.underline
      passed == isCentered /\ ~hasExcessiveFormatting
  IN  IF ~IsSome(title)
      THEN <<Result("title-formatting", "failed",
                    Details("No clear title found in document", <<>>, <<>>), None)>>
      ELSE IF passed
      THEN <<Result("title-formatting", "passed",
                    Details("Title is properly centered with no excessive formatting",
                            <<>>, <<>>),
                    Some(<<ParagraphLabel(Get(title))>>))>>
      ELSE <<Result("title-formatting", "failed",
                    Details("Title formatting issues", <<>>,
                            (IF ~isCentered THEN <<"not centered">> ELSE <<>>)
                            \o (IF hasExcessiveFormatting
                                THEN <<"has excessive formatting">> ELSE <<>>)),
                    Some(<<ParagraphLabel(Get(title))>>))>>

\* MLARulesEngine.checkExcessiveFormatting
checkExcessiveFormatting(paragraphs) ==
  LET Formatted(run) ==
        run.formatting.bold \/ run.formatting.italic \/ run.formatting.underline
      Counted(i) == ~isPotentialTitle(paragraphs[i], i, paragraphs)
      formattingCount ==
        SumSeq([i \in 1..Len(paragraphs) |->
                  IF Counted(i) THEN CountOf(paragraphs[i].runs, Formatted) ELSE 0])
      affectedElements ==
        LabelsWhere(paragraphs, LAMBDA i :
          Counted(i) /\ CountOf(paragraphs[i].runs, Formatted) > 0)
      passed == formattingCount <= 5
  IN  IF passed
      THEN <<Result("excessive-formatting", "passed",
                    Details("Appropriate use of text formatting", <<>>, <<>>), Some(<<>>))>>
      ELSE <<Result("excessive-formatting", "failed",
                    Details("Found instances of bold/italic/underline formatting",
                            <<formattingCount>>, <<>>),
                    Some(affectedElements))>>

\* fault variant of checkWorksCited: a heading counts only when a non-empty
\* paragraph follows it
checkWorksCitedWithEntries(paragraphs) ==
  LET hasWorksCited ==
        \E i \in 1..Len(paragraphs) :
           /\ IsWorksCitedHeading(paragraphs[i])
           /\ \E j \in (i + 1)..Len(paragraphs) : NonEmpty(paragraphs[j])
  IN  IF hasWorksCited
      THEN <<Result("works-cited", "passed",
                    Details("Document includes a Works Cited section", <<>>, <<>>), None)>>
      ELSE <<Result("works-cited", "failed",
                    Details("No Works Cited section found", <<>>, <<>>), None)>>

\* MLARulesEngine.checkWorksCited
checkWorksCited(paragraphs) ==
  LET hasWorksCited == \E i \in 1..Len(paragraphs) : IsWorksCitedHeading(paragraphs[i])
  IN  IF hasWorksCited
      THEN <<Result("works-cited", "passed",
                    Details("Document includes a Works Cited section", <<>>, <<>>), None)>>
      ELSE <<Result("works-cited", "failed",
                    Details("No Works Cited section found", <<>>, <<>>), None)>>

-----------------------------------------------------------------------------
(* MLARulesEngine.analyzeDocument *)

\* fault variant of CountStatus: every result that did not pass counts as failed
CountStatusTwoValued(results, status) ==
  CountOf(results, LAMBDA r :
    r.status = status \/ (status = "failed" /\ r.status # "passed"))

\* results.filter(r => r.status === status).length
CountStatus(results, status) == CountOf(results, LAMBDA r : r.status = status)

\* results.filter(r => r.status === 'failed' && r.rule.severity === severity).length
CountFailed(results, severity) ==
  CountOf(results, LAMBDA r : r.status = "failed" /\ r.rule.severity = severity)

\* fault variant of RoundedPercent: truncation instead of rounding
RoundedPercentFloor(passedRules, verifiableRules) ==
  (100 * passedRules) \div verifiableRules

\* Math.round((passedRules / verifiableRules) * 100): round half up
RoundedPercent(passedRules, verifiableRules) ==
  (200 * passedRules + verifiableRules) \div (2 * verifiableRules)

\* the checks of analyzeDocument, pushed in this order
RunAllChecks(paragraphs, styles, pageSettings, headers) ==
  checkFontFormatting(paragraphs, styles)
  \o checkLineSpacing(paragraphs)
  \o checkPageMargins(pageSettings)
  \o checkFirstLineIndent(paragraphs)
  \o checkParagraphAlignment(paragraphs)
  \o checkHeaderFormat(headers)
  \o checkMLAHeadingFormat(paragraphs)
  \o checkPaperSize(pageSettings)
  \o checkTitleFormatting(paragraphs)
  \o checkExcessiveFormatting(paragraphs)
  \o checkWorksCited(paragraphs)
  \o checkWorksCitedFormatting(paragraphs)
  \o checkInTextCitations(paragraphs)

\* the aggregation of analyzeDocument over the results
Aggregate(results) ==
  LET totalRules == Len(results)
      passedRules == CountStatus(results, "passed")
      failedRules == CountStatus(results, "failed")
      unverifiableRules == CountStatus(results, "unable_to_verify")
      verifiableRules == passedRules + failedRules
      overallScore ==
        IF verifiableRules > 0 THEN RoundedPercent(passedRules, verifiableRules) ELSE 0
  IN  [overallScore |-> overallScore,
       totalRules |-> totalRules,
       passedRules |-> passedRules,
       failedRules |-> failedRules,
       unverifiableRules |-> unverifiableRules,
       results |-> results,
       summary |-> [critical |-> CountFailed(results, "error"),
                    errors |-> CountFailed(results, "error"),
                    warnings |-> CountFailed(results, "warning"),
                    passed |-> passedRules,
                    unverifiable |-> unverifiableRules]]

\* parseResult.styles ? DocxParser.extractStyles(parseResult.styles) : []
StylesOf(styles) == IF IsSome(styles) THEN extractStyles(Get(styles)) ELSE <<>>

\* MLARulesEngine.analyzeDocument
analyzeDocument(pr) ==
  LET paragraphs == extractParagraphs(pr.wordXML)
      styles == StylesOf(pr.styles)
      pageSettings == IF IsSome(pr.settings) THEN extractPageSettings(Get(pr.settings)) ELSE None
  IN  Aggregate(RunAllChecks(paragraphs, styles, pageSettings, pr.headers))

-----------------------------------------------------------------------------
(* The inputs of the model *)

\* the sequences over S of length at most n
SeqsUpTo(S, n) == UNION {[1..k -> S] : k \in 0..n}

\* document bodies: an optional MLA heading block, then free paragraphs
Bodies(n) == {prefix \o free : prefix \in {<<>>, HeadingBlock}, free \in SeqsUpTo(ParaPool, n)}

\* header lists as the engine's checkHeaderFormat takes them
Header(content, alignment) == [content |-> content, paragraphs |-> <<[alignment |-> alignment]>>]
HeaderLists == {None, Some(<<Header("Smith 1", "right")>>), Some(<<Header("Smith 1", "left")>>)}

StylesTrees == {None, Some(StylesXML(<<BareStyle, NormalStyle>>))}
SettingsTrees == {None, Some(SettingsXML)}

\* the parse results handed to analyzeDocument, with bodies of at most n free
\* paragraphs
ParseResults(n) ==
  {[content |-> extractTextContent(WordXML(body)),
    styles |-> styles,
    settings |-> settings,
    wordXML |-> WordXML(body),
    numbering |-> None,
    footnotes |-> None,
    relationships |-> None,
    headers |-> headers] :
     body \in Bodies(n), styles \in StylesTrees, settings \in SettingsTrees,
     headers \in HeaderLists}

\* the header part of an archive: "Smith 1", right-aligned
HeaderXML == [hdr |-> [p |-> <<PNode(<<RunNode("Smith 1", TimesRPr)>>,
                                      PPr(Some("right"), None, Double))>>]]

\* a document as the end-to-end scenario describes it
CompliantBody == <<TitleP, BodyP, WorksCitedP, EntryP>>

DocumentParts ==
  {AbsentPart, EmptyPart, MalformedPart}
  \cup {XmlPart(WordXML(body)) :
          body \in {<<>>, CompliantBody, HeadingBlock \o CompliantBody, <<BareP, BadP>>}}

OptionalPartStates(tree) == {AbsentPart, EmptyPart, MalformedPart, XmlPart(tree)}

Archive(document, styles, settings, numbering, footnotes, relationships, header1) ==
  [zip |-> "ok",
   parts |-> [document |-> document, styles |-> styles, settings |-> settings,
              numbering |-> numbering, footnotes |-> footnotes,
              relationships |-> relationships, header1 |-> header1]]

CorruptArchive ==
  [zip |-> "corrupt",
   parts |-> [document |-> AbsentPart, styles |-> AbsentPart, settings |-> AbsentPart,
              numbering |-> AbsentPart, footnotes |-> AbsentPart,
              relationships |-> AbsentPart, header1 |-> AbsentPart]]

\* the archives handed to parseDocx
Archives ==
  {CorruptArchive}
  \cup {Archive(document, styles, settings, numbering, footnotes, relationships, header1) :
          document \in DocumentParts,
          styles \in OptionalPartStates(StylesXML(<<NormalStyle>>)),
          settings \in OptionalPartStates(SettingsXML) \cup {XmlPart(OtherXML)},
          numbering \in OptionalPartStates(OtherXML),
          footnotes \in OptionalPartStates(OtherXML),
          relationships \in OptionalPartStates(OtherXML),
          header1 \in {AbsentPart, XmlPart(HeaderXML)}}

\* the files a user of the page uploads
GoodDocx ==
  Archive(XmlPart(WordXML(CompliantBody)), XmlPart(StylesXML(<<NormalStyle>>)),
          XmlPart(SettingsXML), AbsentPart, AbsentPart, XmlPart(OtherXML), XmlPart(HeaderXML))
PlainDocx ==
  Archive(XmlPart(WordXML(<<BareP, BadP>>)), AbsentPart, AbsentPart, AbsentPart, AbsentPart,
          AbsentPart, AbsentPart)
NoDocumentDocx ==
  Archive(AbsentPart, XmlPart(StylesXML(<<NormalStyle>>)), XmlPart(SettingsXML), AbsentPart,
          AbsentPart, AbsentPart, AbsentPart)
BadDocumentDocx ==
  Archive(MalformedPart, AbsentPart, XmlPart(SettingsXML), AbsentPart, AbsentPart, AbsentPart,
          AbsentPart)
PageFiles == {GoodDocx, PlainDocx, NoDocumentDocx, BadDocumentDocx, CorruptArchive}

-----------------------------------------------------------------------------
(* The run of one analysis: parseDocx, then analyzeDocument *)

HomeIdle ==
  /\ uploadedFile = None
  /\ analysisResult = None
  /\ isAnalyzing = FALSE
  /\ analysisError = None
  /\ calls = <<>>

\* no single check is being called
NoCall ==
  /\ input = NoValue
  /\ output = NoValue

\* DocxParser.parseDocx on the file of the run
ParseDocx ==
  /\ pc = "uploaded"
  /\ LET outcome == parseDocx(file)
     IN  IF outcome.ok
         THEN /\ parseResult' = outcome.value
              /\ parseError' = None
              /\ pc' = "parsed"
         ELSE /\ parseResult' = NoValue
              /\ parseError' = Some(outcome.message)
              /\ pc' = "failed"
  /\ UNCHANGED <<file, report>>
  /\ UNCHANGED homeVars
  /\ UNCHANGED callVars

\* MLARulesEngine.analyzeDocument on the parse result of the run
AnalyzeDocument ==
  /\ pc = "parsed"
  /\ report' = analyzeDocument(parseResult)
  /\ pc' = "analyzed"
  /\ UNCHANGED <<file, parseResult, parseError>>
  /\ UNCHANGED homeVars
  /\ UNCHANGED callVars

\* the engine on every parse result
Init ==
  /\ file = NoValue
  /\ parseResult \in ParseResults(MaxParas)
  /\ parseError = None
  /\ report = NoValue
  /\ pc = "parsed"
  /\ HomeIdle
  /\ NoCall

Next == AnalyzeDocument

Spec == Init /\ [][Next]_vars

\* the extractor followed by the engine, on every archive
InitParse ==
  /\ file \in Archives
  /\ parseResult = NoValue
  /\ parseError = None
  /\ report = NoValue
  /\ pc = "uploaded"
  /\ HomeIdle
  /\ NoCall

NextParse == ParseDocx \/ AnalyzeDocument

SpecParse == InitParse /\ [][NextParse]_vars

-----------------------------------------------------------------------------
(* The page component Home *)

\* Array without its k-th element
RemoveAt(s, k) == SubSeq(s, 1, k - 1) \o SubSeq(s, k + 1, Len(s))

\* performAnalysis up to its first await: the call is in flight afterwards
StartAnalysis(f) ==
  /\ isAnalyzing' = TRUE
  /\ analysisError' = None
  /\ calls' = Append(calls, f)

\* handleFileUpload(file) from DocumentUpload.validateAndUploadFile; the drop
\* zone is rendered only while no file is held
UploadFile(f) ==
  /\ uploadedFile = None
  /\ Len(calls) < MaxCalls
  /\ uploadedFile' = Some(f)
  /\ analysisResult' = None
  /\ StartAnalysis(f)
  /\ UNCHANGED pipelineVars
  /\ UNCHANGED callVars

\* handleFileUpload(null) from DocumentUpload.removeFile
RemoveFile ==
  /\ uploadedFile # None
  /\ uploadedFile' = None
  /\ analysisResult' = None
  /\ analysisError' = None
  /\ UNCHANGED <<isAnalyzing, calls>>
  /\ UNCHANGED pipelineVars
  /\ UNCHANGED callVars

\* the Re-analyze Document button: performAnalysis() on the held file
Reanalyze ==
  /\ uploadedFile # None
  /\ ~isAnalyzing
  /\ Len(calls) < MaxCalls
  /\ StartAnalysis(Get(uploadedFile))
  /\ UNCHANGED <<uploadedFile, analysisResult>>
  /\ UNCHANGED pipelineVars
  /\ UNCHANGED callVars

\* the Try Again button of the error box: performAnalysis() on the held file,
\* which returns at once when no file is held
TryAgain ==
  /\ analysisError # None
  /\ IF uploadedFile = None
     THEN UNCHANGED <<isAnalyzing, analysisError, calls>>
     ELSE /\ Len(calls) < MaxCalls
          /\ StartAnalysis(Get(uploadedFile))
  /\ UNCHANGED <<uploadedFile, analysisResult>>
  /\ UNCHANGED pipelineVars
  /\ UNCHANGED callVars

\* fault variant of SettleAnalysis: isAnalyzing reset on the success path only
SettleAnalysisNoFinally(k) ==
  /\ k \in 1..Len(calls)
  /\ LET outcome == parseDocx(calls[k])
     IN  IF outcome.ok
         THEN /\ analysisResult' = Some(analyzeDocument(outcome.value))
              /\ isAnalyzing' = FALSE
              /\ UNCHANGED analysisError
         ELSE /\ analysisError' = Some(outcome.message)
              /\ UNCHANGED <<analysisResult, isAnalyzing>>
  /\ calls' = RemoveAt(calls, k)
  /\ UNCHANGED uploadedFile
  /\ UNCHANGED pipelineVars
  /\ UNCHANGED callVars

\* performAnalysis from the settling of parseDocx to its end: try, catch, finally
SettleAnalysis(k) ==
  /\ k \in 1..Len(calls)
  /\ LET outcome == parseDocx(calls[k])
     IN  IF outcome.ok
         THEN /\ analysisResult' = Some(analyzeDocument(outcome.value))
              /\ UNCHANGED analysisError
         ELSE /\ analysisError' = Some(outcome.message)
              /\ UNCHANGED analysisResult
  /\ isAnalyzing' = FALSE
  /\ calls' = RemoveAt(calls, k)
  /\ UNCHANGED uploadedFile
  /\ UNCHANGED pipelineVars
  /\ UNCHANGED callVars

InitPage ==
  /\ file = NoValue
  /\ parseResult = NoValue
  /\ parseError = None
  /\ report = NoValue
  /\ pc = "idle"
  /\ HomeIdle
  /\ NoCall

NextPage ==
  \/ \E f \in PageFiles : UploadFile(f)
  \/ RemoveFile
  \/ Reanalyze
  \/ TryAgain
  \/ \E k \in 1..Len(calls) : SettleAnalysis(k)

SpecPage == InitPage /\ [][NextPage]_vars

-----------------------------------------------------------------------------
(* The checks of the engine, each called on its own arguments *)

\* margins around the tolerance of checkPageMargins, in twips
MarginValues == {1367, 1368, 1440, 1512, 1513}

\* DocxPageSettings | null as checkPageMargins takes it
PageSettingsArgs ==
  {None}
  \cup {Some([margins |-> [top |-> top, bottom |-> bottom, left |-> left, right |-> right],
              pageSize |-> [width |-> 12240, height |-> 15840],
              orientation |-> "portrait"]) :
          top \in MarginValues, bottom \in MarginValues,
          left \in MarginValues, right \in MarginValues}

\* paragraphs of checkFontFormatting: one run of each family and size, a
\* paragraph with two runs, a paragraph without runs
FontRPr(family, sz) == RPr(family, None, sz, FALSE, FALSE, FALSE)
FontP(rPr) == PNode(<<RunNode("Some text", rPr)>>, NoPPr)
FontParaPool ==
  {FontP(TimesRPr),
   FontP(FontRPr(Some("Times New Roman"), Some("28"))),
   FontP(FontRPr(Some("Arial"), Some("24"))),
   FontP(FontRPr(Some("TIMES NEW ROMAN"), Some("24"))),
   FontP(FontRPr(Some("Arial"), None)),
   FontP(FontRPr(None, Some("28"))),
   FontP(NoRPr),
   PNode(<<RunNode("Two ", FontRPr(Some("Arial"), Some("28"))),
           RunNode("runs", FontRPr(Some("Arial"), Some("28")))>>, NoPPr),
   EmptyP}

\* paragraphs of a document handed to one check
MaxCheckParas == 3

\* w:line values around the two ranges of isDoubleSpaced, and none
LineValues ==
  {None} \cup {Some(s) : s \in {"420", "429", "430", "440", "449", "450", "480",
                                 "520", "521", "530", "531"}}

\* w:lineRule values, and none
LineRules == {None, Some("auto"), Some("exact"), Some("atLeast")}

\* paragraphs of isDoubleSpaced: every line value under every rule, and a
\* paragraph without a spacing element
SpacingParas ==
  {PNode(<<RunNode("Some text", TimesRPr)>>, NoPPr)}
  \cup {PNode(<<RunNode("Some text", TimesRPr)>>,
               PPr(None, None, Some(Spacing(line, lineRule, None)))) :
          line \in LineValues, lineRule \in LineRules}

ArialRPr == FontRPr(Some("Arial"), Some("28"))

\* styles.xml trees of checkFontFormatting: none, Normal in Times New Roman
\* 12pt, Normal in Arial 14pt, a paragraph style before Normal, a character
\* style only, a paragraph style that is not Normal, Normal without a font
FontStylesTrees ==
  {None,
   Some(StylesXML(<<NormalStyle>>)),
   Some(StylesXML(<<StyleNode("Normal", Some("Normal"), Some("paragraph"), ArialRPr)>>)),
   Some(StylesXML(<<StyleNode("Body", Some("Body"), Some("paragraph"), ArialRPr), NormalStyle>>)),
   Some(StylesXML(<<BareStyle>>)),
   Some(StylesXML(<<StyleNode("Body", Some("Body"), None, ArialRPr)>>)),
   Some(StylesXML(<<StyleNode("Normal", Some("Normal"), Some("paragraph"), NoRPr)>>))}

\* paragraphs of checkLineSpacing: no spacing element, double, single, a
\* spacing element without w:line, exact/430, no text, blank text
SpacedP(text, spacing) == PNode(<<RunNode(text, TimesRPr)>>, PPr(None, None, spacing))
SpacingParaPool ==
  {SpacedP("Some text", None),
   SpacedP("Some text", Double),
   SpacedP("Some text", Some(Spacing(Some("240"), Some("auto"), None))),
   SpacedP("Some text", Some(Spacing(None, None, Some("200")))),
   SpacedP("Some text", Some(Spacing(Some("430"), Some("exact"), None))),
   EmptyP,
   SpacedP(" ", Some(Spacing(Some("240"), Some("auto"), None)))}

\* paragraphs of checkFirstLineIndent: no indentation element, a hanging
\* indent only, first-line indents on and around the tolerance, a centered
\* paragraph without indent, no text
IndentedP(jc, ind) == PNode(<<RunNode("Some text", TimesRPr)>>, PPr(jc, ind, Double))
IndentParaPool ==
  {IndentedP(None, None),
   IndentedP(None, Some(Ind(None, Some("720")))),
   IndentedP(None, Some(Ind(Some("720"), None))),
   IndentedP(None, Some(Ind(Some("647"), None))),
   IndentedP(None, Some(Ind(Some("648"), None))),
   IndentedP(None, Some(Ind(Some("792"), None))),
   IndentedP(None, Some(Ind(Some("793"), None))),
   IndentedP(Some("center"), Some(Ind(Some("0"), None))),
   EmptyP}

\* empty paragraphs before the first paragraph with text
MaxLeadingEmpty == 5

\* documents of checkTitleFormatting: empty paragraphs, then a first
\* paragraph with text (centered and plain, centered and bold, centered and
\* italic, left-aligned, centered and long), then at most one more paragraph
TitledP(text, jc, b, i) ==
  PNode(<<RunNode(text, RPr(Some("Times New Roman"), None, Some("24"), b, i, FALSE))>>,
        PPr(jc, None, Double))
FirstTextParas ==
  {TitleP,
   TitledP("My Essay Title", Some("center"), TRUE, FALSE),
   TitledP("My Essay Title", Some("center"), FALSE, TRUE),
   TitledP("My Essay Title", None, FALSE, FALSE),
   TitledP(LongText, Some("center"), FALSE, FALSE)}
Empties(k) == [i \in 1..k |-> EmptyP]
TitleBodies ==
  {Empties(k) \o <<first>> \o rest :
     k \in 0..MaxLeadingEmpty, first \in FirstTextParas,
     rest \in SeqsUpTo({BodyP, WorksCitedP}, 1)}

\* headers of a list handed to checkHeaderFormat
MaxHeaders == 2

\* headers of checkHeaderFormat: name and number right-aligned, left-aligned,
\* padded and end-aligned, without paragraphs, in the second of two
\* paragraphs; no text, blank text, no number, a number in another pattern
HeaderPool ==
  {Header("Smith 1", "right"),
   Header("Smith 1", "left"),
   Header(" Smith 1 ", "end"),
   [content |-> "Smith 1", paragraphs |-> <<>>],
   [content |-> "Smith 1", paragraphs |-> <<[alignment |-> "left"], [alignment |-> "right"]>>],
   Header("", "right"),
   Header(" ", "right"),
   Header("Smith", "right"),
   Header("Page 1 of 2", "right")}

HeaderArgs == {None} \cup {Some(hs) : hs \in SeqsUpTo(HeaderPool, MaxHeaders)}

\* documents of checkMLAHeadingFormat: empty paragraphs, then up to four
\* lines, each either the heading line of its slot or another line, the
\* third one left-aligned or centered
HeadingSlots ==
  <<{HeadingLine("John Smith"), HeadingLine("English 101"), HeadingLine("15 March 2024")},
    {HeadingLine("Dr. Johnson"), HeadingLine("English 101")},
    {HeadingLine("English 101"),
     PNode(<<RunNode("English 101", TimesRPr)>>, PPr(Some("center"), None, Double))},
    {HeadingLine("15 March 2024"), HeadingLine("English 101")}>>
HeadingLines(n) == {ls \in [1..n -> ParaPool \cup UNION {HeadingSlots[k] : k \in 1..4}] :
                      \A k \in 1..n : ls[k] \in HeadingSlots[k]}
HeadingBodies ==
  {Empties(k) \o ls : k \in 0..MaxLeadingEmpty, ls \in UNION {HeadingLines(n) : n \in 0..4}}

\* documents of checkWorksCitedFormatting: a heading (Works Cited,
\* Bibliography, or none), then entries with hanging indents on and around the
\* tolerance, without indentation, empty, or a further heading
EntryWith(ind) == PNode(<<RunNode("Smith, John. Book.", TimesRPr)>>, PPr(None, ind, Double))
EntryPool ==
  {EntryP,
   EntryNoIndP,
   EntryWith(Some(Ind(None, Some("647")))),
   EntryWith(Some(Ind(None, Some("648")))),
   EntryWith(Some(Ind(None, Some("793")))),
   EmptyP,
   WorksCitedP}
BibliographyP == PNode(<<RunNode("Bibliography", TimesRPr)>>, PPr(Some("center"), None, Double))
WorksCitedBodies(n) ==
  {head \o entries :
     head \in {<<>>, <<WorksCitedP>>, <<BibliographyP>>},
     entries \in SeqsUpTo(EntryPool, n)}

\* paragraph nodes of extractParagraphs: without runs, with one and two
\* runs, with a run without a t node, with several t nodes, with a t node
\* that carries an attribute, and with and without jc, ind and spacing
ShapedP(ts, pPr) == PNode([k \in 1..Len(ts) |-> RunNodeWith(ts[k], NoRPr)], pPr)
ShapePool ==
  {ShapedP(<<>>, NoPPr),
   ShapedP(<<>>, PPr(Some("center"), Some(Ind(Some("720"), None)), None)),
   ShapedP(<<TextString("One")>>, NoPPr),
   ShapedP(<<TextString("One "), TextString("two")>>, PPr(Some("right"), None, Double)),
   ShapedP(<<TextAbsent, TextString("Three")>>, PPr(Some(""), Some(Ind(None, None)), None)),
   ShapedP(<<TextArray(<<"Fo", "ur">>), TextString("")>>,
           PPr(None, None, Some(Spacing(None, None, None)))),
   ShapedP(<<TextObject("Five "), TextString("six")>>, NoPPr)}
ShapedBodies(n) == SeqsUpTo(ShapePool, n)

\* values of the val attribute of a sz node: absent, empty, zero, negative,
\* without digits, digits after text, digits before text, and half-points on
\* and around the bounds of 8 and 144
SizeValues ==
  {None} \cup {Some(s) : s \in {"", "0", "-24", "abc", "pt24", "24pt",
                                 "7", "8", "24", "25", "144", "145"}}

\* the calls of the checks, on bodies of at most n paragraphs
CheckInputs(n) ==
  {[fn |-> "checkPageMargins", pageSettings |-> ps] : ps \in PageSettingsArgs}
  \cup {[fn |-> "checkFontFormatting", body |-> body, styles |-> styles] :
          body \in SeqsUpTo(FontParaPool, n), styles \in FontStylesTrees}
  \cup {[fn |-> "isDoubleSpaced", paragraph |-> paragraph] : paragraph \in SpacingParas}
  \cup {[fn |-> "checkLineSpacing", body |-> body] :
          body \in SeqsUpTo(SpacingParaPool, n)}
  \cup {[fn |-> "checkFirstLineIndent", body |-> body] :
          body \in SeqsUpTo(IndentParaPool, n)}
  \cup {[fn |-> "checkTitleFormatting", body |-> body] : body \in TitleBodies}
  \cup {[fn |-> "checkHeaderFormat", headers |-> headers] : headers \in HeaderArgs}
  \cup {[fn |-> "checkMLAHeadingFormat", body |-> body] : body \in HeadingBodies}
  \cup {[fn |-> "checkWorksCitedFormatting", body |-> body] : body \in WorksCitedBodies(n)}
  \cup {[fn |-> "parseFontSize", sizeValue |-> s] : s \in SizeValues}
  \cup {[fn |-> "extractParagraphs", body |-> body] : body \in ShapedBodies(n)}

\* the frame of a call of one check
Called(fn) ==
  /\ pc = "call"
  /\ input.fn = fn
  /\ pc' = "returned"
  /\ UNCHANGED <<file, parseResult, parseError, report, input>>
  /\ UNCHANGED homeVars

ReturnedFrom(fn) == pc = "returned" /\ input.fn = fn

\* MLARulesEngine.checkPageMargins(pageSettings)
CallCheckPageMargins ==
  /\ Called("checkPageMargins")
  /\ output' = checkPageMargins(input.pageSettings)

\* MLARulesEngine.checkFontFormatting(paragraphs, styles)
CallCheckFontFormatting ==
  /\ Called("checkFontFormatting")
  /\ output' = checkFontFormatting(extractParagraphs(WordXML(input.body)),
                                    StylesOf(input.styles))

\* MLARulesEngine.isDoubleSpaced(paragraph) on a parsed paragraph
CallIsDoubleSpaced ==
  /\ Called("isDoubleSpaced")
  /\ output' = isDoubleSpaced(parseParagraph(input.paragraph))

\* MLARulesEngine.checkLineSpacing(paragraphs)
CallCheckLineSpacing ==
  /\ Called("checkLineSpacing")
  /\ output' = checkLineSpacing(extractParagraphs(WordXML(input.body)))

\* MLARulesEngine.checkFirstLineIndent(paragraphs)
CallCheckFirstLineIndent ==
  /\ Called("checkFirstLineIndent")
  /\ output' = checkFirstLineIndent(extractParagraphs(WordXML(input.body)))

\* MLARulesEngine.checkTitleFormatting(paragraphs)
CallCheckTitleFormatting ==
  /\ Called("checkTitleFormatting")
  /\ output' = checkTitleFormatting(extractParagraphs(WordXML(input.body)))

\* MLARulesEngine.checkHeaderFormat(headers)
CallCheckHeaderFormat ==
  /\ Called("checkHeaderFormat")
  /\ output' = checkHeaderFormat(input.headers)

\* MLARulesEngine.checkMLAHeadingFormat(paragraphs)
CallCheckMLAHeadingFormat ==
  /\ Called("checkMLAHeadingFormat")
  /\ output' = checkMLAHeadingFormat(extractParagraphs(WordXML(input.body)))

\* MLARulesEngine.checkWorksCitedFormatting(paragraphs)
CallCheckWorksCitedFormatting ==
  /\ Called("checkWorksCitedFormatting")
  /\ output' = checkWorksCitedFormatting(extractParagraphs(WordXML(input.body)))

\* DocxParser.parseRuns on a run whose rPr.sz.val is the argument, i.e.
\* DocxParser.parseFontSize(rPr.sz?.val)
CallParseFontSize ==
  /\ Called("parseFontSize")
  /\ output' = parseRuns(PNode(<<RunNode("text",
                   RPr(None, None, input.sizeValue, FALSE, FALSE, FALSE))>>, NoPPr))

\* DocxParser.extractParagraphs(wordXML)
CallExtractParagraphs ==
  /\ Called("extractParagraphs")
  /\ output' = extractParagraphs(WordXML(input.body))

InitChecks ==
  /\ file = NoValue
  /\ parseResult = NoValue
  /\ parseError = None
  /\ report = NoValue
  /\ pc = "call"
  /\ HomeIdle
  /\ input \in CheckInputs(MaxCheckParas)
  /\ output = NoValue

NextChecks ==
  \/ CallCheckPageMargins
  \/ CallCheckFontFormatting
  \/ CallIsDoubleSpaced
  \/ CallCheckLineSpacing
  \/ CallCheckFirstLineIndent
  \/ CallCheckTitleFormatting
  \/ CallCheckHeaderFormat
  \/ CallCheckMLAHeadingFormat
  \/ CallCheckWorksCitedFormatting
  \/ CallParseFontSize
  \/ CallExtractParagraphs

SpecChecks == InitChecks /\ [][NextChecks]_vars

-----------------------------------------------------------------------------
(* Properties *)

Analyzed == pc = "analyzed"

Statuses == {"passed", "failed", "unable_to_verify"}

\* the result of the report for a rule id (the first one, as Array.find)
ResultOf(rep, id) ==
  rep.results[CHOOSE k \in 1..Len(rep.results) :
                /\ rep.results[k].rule.id = id
                /\ \A j \in 1..(k - 1) : rep.results[j].rule.id # id]

\* the number of results of the report with a status
StatusCount(rep, status) ==
  Cardinality({k \in 1..Len(rep.results) : rep.results[k].status = status})

\* C1: in every report of analyzeDocument, passedRules + failedRules +
\* unverifiableRules = totalRules, totalRules is the number of results, and
\* every result has one of the three statuses.
C1_CountsAddUp ==
  Analyzed =>
    /\ report.passedRules + report.failedRules + report.unverifiableRules = report.totalRules
    /\ report.totalRules = Len(report.results)
    /\ \A k \in 1..Len(report.results) : report.results[k].status \in Statuses

\* a report in which each of the three statuses occurs
C1_Witness ==
  /\ Analyzed
  /\ report.passedRules > 0
  /\ report.failedRules > 0
  /\ report.unverifiableRules > 0

\* C2: overallScore is 100 * passed / (passed + failed) rounded to the nearest
\* integer (a half rounds up) when passed + failed > 0, and 0 otherwise; it is
\* an integer in 0..100, and the unverifiable results enter neither the
\* numerator nor the denominator.
C2_ScoreFormula ==
  Analyzed =>
    LET p == StatusCount(report, "passed")
        f == StatusCount(report, "failed")
        score == report.overallScore
    IN  /\ score \in 0..100
        /\ IF p + f > 0
           THEN /\ 2 * (p + f) * score <= 200 * p + (p + f)
                /\ 200 * p + (p + f) < 2 * (p + f) * (score + 1)
           ELSE score = 0

\* a report with unverifiable results whose quotient lies halfway between
\* two integers
C2_Witness ==
  /\ Analyzed
  /\ report.unverifiableRules > 0
  /\ report.passedRules > 0
  /\ report.failedRules > 0
  /\ LET v == report.passedRules + report.failedRules
     IN  2 * ((100 * report.passedRules) % v) = v

\* C3: every rule of the catalog has exactly one result in the report, and
\* totalRules is the number of catalog entries.
C3_EveryCatalogRuleOnce ==
  Analyzed =>
    /\ \A r \in 1..Len(MLA_RULES) :
         Cardinality({k \in 1..Len(report.results) :
                        report.results[k].rule.id = MLA_RULES[r].id}) = 1
    /\ report.totalRules = Len(MLA_RULES)

\* the paragraphs of the analyzed model
ModelParagraphs == extractParagraphs(parseResult.wordXML)

\* the paragraphs after the Works Cited heading, when there is one
EntriesOf(paragraphs) ==
  LET found == {i \in 1..Len(paragraphs) : IsWorksCitedHeading(paragraphs[i])}
      start == CHOOSE i \in found : \A j \in found : i <= j
  IN  IF found = {} THEN <<>>
      ELSE SelectSeq(SubSeq(paragraphs, start + 1, Len(paragraphs)), NonEmpty)

\* C4: absence of data never yields 'failed'. line-spacing is failed only if
\* a non-empty paragraph carries a line value that is not double spacing, and
\* the hanging-indent rule, given entries, is failed only if an entry carries
\* a hanging value outside the tolerance.
C4_AbsenceNeverFails ==
  Analyzed =>
    /\ ResultOf(report, "line-spacing").status = "failed" =>
         \E i \in 1..Len(ModelParagraphs) :
            /\ NonEmpty(ModelParagraphs[i])
            /\ IsSome(ModelParagraphs[i].spacing)
            /\ IsSome(Get(ModelParagraphs[i].spacing).line)
            /\ ~isDoubleSpaced(ModelParagraphs[i])
    /\ (/\ ResultOf(report, "hanging-indent-works-cited").status = "failed"
        /\ Len(EntriesOf(ModelParagraphs)) > 0) =>
         \E i \in 1..Len(EntriesOf(ModelParagraphs)) :
            LET p == EntriesOf(ModelParagraphs)[i]
            IN  /\ IsSome(p.indentation)
                /\ IsSome(Get(p.indentation).hanging)
                /\ Abs(Get(Get(p.indentation).hanging) - 720) > 72

\* the end-to-end scenario: Times New Roman 12pt throughout, a settings part,
\* double spacing, 0.5in first-line indents on the left-aligned body, a
\* centered unformatted title, a right-aligned "Smith 1" header part, at least
\* three parenthetical citations, and a Works Cited page whose entries are
\* hanging-indented
IsEndToEndScenario(f) ==
  /\ f.zip = "ok"
  /\ f.parts.document.kind = "xml"
  /\ \A name \in OptionalParts : f.parts[name].kind \in {"absent", "xml"}
  /\ f.parts.settings.kind = "xml"
  /\ f.parts.header1 = XmlPart(HeaderXML)
  /\ LET ps == extractParagraphs(f.parts.document.tree)
         heads == {i \in 1..Len(ps) : IsWorksCitedHeading(ps[i])}
         Body(i) == /\ NonEmpty(ps[i])
                    /\ ps[i].alignment # "center"
                    /\ \A h \in heads : i < h
     IN  /\ \A i \in 1..Len(ps) : \A r \in 1..Len(ps[i].runs) :
              /\ ps[i].runs[r].formatting.fontFamily = Some("Times New Roman")
              /\ ps[i].runs[r].formatting.fontSize = Some(120)
         /\ \A i \in 1..Len(ps) : NonEmpty(ps[i]) => isDoubleSpaced(ps[i])
         /\ \A i \in 1..Len(ps) :
              Body(i) => /\ ps[i].alignment = "left"
                         /\ IsSome(ps[i].indentation)
                         /\ Get(ps[i].indentation).firstLine = Some(720)
         /\ Len(ps) > 0
         /\ ps[1].alignment = "center"
         /\ NonEmpty(ps[1])
         /\ \A r \in 1..Len(ps[1].runs) :
              ~(\/ ps[1].runs[r].formatting.bold
                \/ ps[1].runs[r].formatting.italic
                \/ ps[1].runs[r].formatting.underline)
         /\ SumSeq([i \in 1..Len(ps) |-> CitationMatches(ps[i].text)]) >= 3
         /\ Cardinality(heads) = 1
         /\ Len(EntriesOf(ps)) > 0
         /\ \A i \in 1..Len(EntriesOf(ps)) :
              /\ IsSome(EntriesOf(ps)[i].indentation)
              /\ Get(EntriesOf(ps)[i].indentation).hanging = Some(720)

\* C5: parseDocx followed by analyzeDocument on a document of the end-to-end
\* scenario yields overallScore 100 with no failed and no unverifiable rule.
C5_EndToEndScores100 ==
  (Analyzed /\ IsEndToEndScenario(file)) =>
    /\ report.overallScore = 100
    /\ report.failedRules = 0
    /\ report.unverifiableRules = 0

\* C7: every result is counted in exactly one of summary.passed,
\* summary.errors, summary.warnings and summary.unverifiable, so the four add
\* up to totalRules.
C7_SummaryPartitions ==
  Analyzed =>
    LET rs == report.results
        Passed(r) == r.status = "passed"
        Error(r) == r.status = "failed" /\ r.rule.severity = "error"
        Warning(r) == r.status = "failed" /\ r.rule.severity = "warning"
        Unverifiable(r) == r.status = "unable_to_verify"
        N(b) == IF b THEN 1 ELSE 0
    IN  /\ \A k \in 1..Len(rs) :
             N(Passed(rs[k])) + N(Error(rs[k])) + N(Warning(rs[k]))
               + N(Unverifiable(rs[k])) = 1
        /\ report.summary.passed = Cardinality({k \in 1..Len(rs) : Passed(rs[k])})
        /\ report.summary.errors = Cardinality({k \in 1..Len(rs) : Error(rs[k])})
        /\ report.summary.warnings = Cardinality({k \in 1..Len(rs) : Warning(rs[k])})
        /\ report.summary.unverifiable = Cardinality({k \in 1..Len(rs) : Unverifiable(rs[k])})
        /\ report.summary.passed + report.summary.errors + report.summary.warnings
             + report.summary.unverifiable = report.totalRules

\* a report in which each of the four summary counts is positive
C7_Witness ==
  /\ Analyzed
  /\ report.summary.passed > 0
  /\ report.summary.errors > 0
  /\ report.summary.warnings > 0
  /\ report.summary.unverifiable > 0

\* the value parseDocx returns for an optional part that is read
ExpectedPart(part) == IF part.kind = "xml" THEN Some(part.tree) ELSE None

\* C8: with document.xml well-formed, an optional part whose XML does not
\* parse leaves parseDocx successful, is treated as absent, and leaves the
\* results of document.xml and of the other optional parts as they are.
C8_OptionalPartBulkhead ==
  (pc # "uploaded" /\ file.zip = "ok" /\ file.parts.document.kind = "xml") =>
    /\ pc \in {"parsed", "analyzed"}
    /\ parseResult.wordXML = file.parts.document.tree
    /\ \A name \in OptionalParts : parseResult[name] = ExpectedPart(file.parts[name])

\* C9: parseDocx returns a complete result or throws a message that carries
\* the cause (naming document.xml when that part is missing); when the call
\* of performAnalysis settles on a throw, analysisError is that message,
\* analysisResult is left as it was and isAnalyzing is false.
C9_FatalErrorNoPartialModel ==
  [][\A k \in 1..Len(calls) :
       LET outcome == parseDocx(calls[k])
       IN  /\ IF outcome.ok
              THEN DOMAIN outcome.value =
                     {"content", "styles", "settings", "wordXML", "numbering",
                      "footnotes", "relationships", "headers"}
              ELSE /\ DOMAIN outcome = {"ok", "message"}
                   /\ (calls[k].zip = "ok" /\ calls[k].parts.document.kind = "absent") =>
                        outcome.message =
                          "Failed to parse DOCX file: Invalid DOCX file: document.xml not found"
           /\ (SettleAnalysis(k) /\ ~outcome.ok) =>
                /\ analysisError' = Some(outcome.message)
                /\ analysisResult' = analysisResult
                /\ isAnalyzing' = FALSE]_vars

\* the page after the analysis of an archive without document.xml has settled
C9_Witness ==
  /\ uploadedFile = Some(NoDocumentDocx)
  /\ calls = <<>>
  /\ analysisError =
       Some("Failed to parse DOCX file: Invalid DOCX file: document.xml not found")
  /\ analysisResult = None
  /\ ~isAnalyzing

\* C10: with document.xml well-formed and every optional part either missing
\* or well-formed, parseDocx succeeds, the missing parts are null in the
\* result, analyzeDocument returns a report, and margins and paper-size are
\* unable_to_verify when the settings part is missing.
C10_OnlyDocumentIsMandatory ==
  (/\ pc # "uploaded"
   /\ file.zip = "ok"
   /\ file.parts.document.kind = "xml"
   /\ \A name \in OptionalParts : file.parts[name].kind \in {"absent", "empty", "xml"}) =>
    /\ pc \in {"parsed", "analyzed"}
    /\ \A name \in OptionalParts :
         file.parts[name].kind = "absent" => parseResult[name] = None
    /\ Analyzed =>
         /\ report.totalRules = Len(report.results)
         /\ \A k \in 1..Len(report.results) : report.results[k].status \in Statuses
         /\ file.parts.settings.kind = "absent" =>
              /\ ResultOf(report, "margins").status = "unable_to_verify"
              /\ ResultOf(report, "paper-size").status = "unable_to_verify"

\* an analyzed archive that holds document.xml and nothing else
C10_Witness ==
  /\ Analyzed
  /\ \A name \in OptionalParts : file.parts[name].kind = "absent"
  /\ file.parts.document.kind = "xml"
  /\ Len(file.parts.document.tree.document.body.p) > 0
  /\ ResultOf(report, "margins").status = "unable_to_verify"
  /\ ResultOf(report, "paper-size").status = "unable_to_verify"

\* C11: for an archive with a header part, the header reaches the engine:
\* header-format is passed or failed according to the header, and is
\* unable_to_verify only when the archive has no header part.
C11_HeaderReachesEngine ==
  (Analyzed /\ file.parts.header1.kind = "xml") =>
    ResultOf(report, "header-format").status # "unable_to_verify"

\* the margins of a page-settings argument
MarginsOf(ps) == {ps.margins.top, ps.margins.bottom, ps.margins.left, ps.margins.right}

\* C12: checkPageMargins returns unable_to_verify iff the page settings are
\* null; otherwise passed iff each of the four margins lies in 1368..1512
\* (the tolerance of 72 around 1440, bounds included), and failed otherwise.
C12_MarginsRule ==
  ReturnedFrom("checkPageMargins") =>
    LET ps == input.pageSettings
        status == output[1].status
    IN  /\ Len(output) = 1
        /\ output[1].rule.id = "margins"
        /\ status = "unable_to_verify" <=> ps = None
        /\ ps # None =>
             /\ status = "passed" <=> \A m \in MarginsOf(Get(ps)) : m \in 1368..1512
             /\ status = "failed" <=> \E m \in MarginsOf(Get(ps)) : m \notin 1368..1512

\* margins on both ends of the tolerance pass
C12_Witness ==
  /\ ReturnedFrom("checkPageMargins")
  /\ input.pageSettings # None
  /\ Get(input.pageSettings).margins.top = 1368
  /\ Get(input.pageSettings).margins.bottom = 1512
  /\ output[1].status = "passed"

\* the paragraphs and the styles of a returned checkFontFormatting call
FontParagraphs == extractParagraphs(WordXML(input.body))
FontDefault == DefaultStyle(StylesOf(input.styles))

\* the set of elements of a sequence
Range(s) == {s[k] : k \in 1..Len(s)}

\* paragraph i has a run whose effective size (explicit, else default) is
\* more than 0.1pt away from 12pt
HasWrongSizeRun(i) ==
  \E r \in 1..Len(FontParagraphs[i].runs) :
     LET size == OrElse(FontParagraphs[i].runs[r].formatting.fontSize, FontDefault.fontSize)
     IN  IsSome(size) /\ Get(size) \notin 119..121

\* C13: font-size is unable_to_verify iff no run has an explicit size and
\* the default style has none; otherwise failed iff some run's effective
\* size differs from 12pt by more than 0.1pt, every paragraph with such a
\* run being listed in affectedElements; otherwise passed.
C13_FontSizeRule ==
  ReturnedFrom("checkFontFormatting") =>
    LET res == output[2]
        anyExplicit ==
          \E i \in 1..Len(FontParagraphs) : \E r \in 1..Len(FontParagraphs[i].runs) :
             IsSome(FontParagraphs[i].runs[r].formatting.fontSize)
        anyWrong == \E i \in 1..Len(FontParagraphs) : HasWrongSizeRun(i)
    IN  /\ res.rule.id = "font-size"
        /\ res.status = "unable_to_verify" <=>
             (~anyExplicit /\ ~IsSome(FontDefault.fontSize))
        /\ res.status # "unable_to_verify" =>
             /\ res.status = "failed" <=> anyWrong
             /\ res.status = "passed" <=> ~anyWrong
        /\ res.status = "failed" =>
             \A i \in 1..Len(FontParagraphs) :
                HasWrongSizeRun(i) => ParagraphLabel(i) \in Range(Get(res.affectedElements))

\* a 14pt run after a 12pt paragraph: failed, the second paragraph listed
C13_Witness ==
  /\ ReturnedFrom("checkFontFormatting")
  /\ Len(input.body) = 2
  /\ ~HasWrongSizeRun(1)
  /\ HasWrongSizeRun(2)
  /\ output[2].status = "failed"
  /\ "Paragraph 2" \in Range(Get(output[2].affectedElements))

\* paragraph i has a run whose effective family (explicit, else default)
\* contains no Times New Roman alias
HasWrongFamilyRun(i) ==
  \E r \in 1..Len(FontParagraphs[i].runs) :
     LET family == OrElse(FontParagraphs[i].runs[r].formatting.fontFamily,
                          FontDefault.fontFamily)
     IN  IsSome(family) /\ ~isTimesNewRomanFont(Get(family))

\* C14: font-family is unable_to_verify iff no run has an explicit family
\* and the default style has none; otherwise failed iff some run's effective
\* family contains no Times New Roman alias, and the affectedElements of a
\* failed result are exactly the paragraphs with such a run, each once, in
\* document order.
C14_FontFamilyRule ==
  ReturnedFrom("checkFontFormatting") =>
    LET res == output[1]
        anyExplicit ==
          \E i \in 1..Len(FontParagraphs) : \E r \in 1..Len(FontParagraphs[i].runs) :
             IsSome(FontParagraphs[i].runs[r].formatting.fontFamily)
        anyWrong == \E i \in 1..Len(FontParagraphs) : HasWrongFamilyRun(i)
    IN  /\ res.rule.id = "font-family"
        /\ res.status = "unable_to_verify" <=>
             (~anyExplicit /\ ~IsSome(FontDefault.fontFamily))
        /\ res.status # "unable_to_verify" => (res.status = "failed" <=> anyWrong)
        /\ res.status = "failed" =>
             Get(res.affectedElements) = LabelsWhere(FontParagraphs, HasWrongFamilyRun)

\* the double-spacing predicate as stated: a line value in 450..520 under
\* the auto rule or a rule that is neither auto nor exact, in 430..530 under
\* the exact rule
StatedDoubleSpaced(p) ==
  /\ IsSome(p.spacing)
  /\ IsSome(Get(p.spacing).line)
  /\ LET line == Get(Get(p.spacing).line)
         lineRule == Get(p.spacing).lineRule
     IN  \/ lineRule = "auto" /\ line \in 450..520
         \/ lineRule = "exact" /\ line \in 430..530
         \/ lineRule \notin {"auto", "exact"} /\ line \in 450..520

BodyParagraphs == extractParagraphs(WordXML(input.body))

\* the non-empty paragraphs of the body, those of them without a spacing
\* record, and those with a spacing record that are not double spaced
NonEmptyIndices == {i \in 1..Len(BodyParagraphs) : BodyParagraphs[i].text \notin {"", " "}}
LackSpacing == {i \in NonEmptyIndices : ~IsSome(BodyParagraphs[i].spacing)}
NotDoubleSpaced ==
  {i \in NonEmptyIndices :
     IsSome(BodyParagraphs[i].spacing) /\ ~StatedDoubleSpaced(BodyParagraphs[i])}

\* C16: line-spacing is unable_to_verify iff more than half of the non-empty
\* paragraphs have no spacing record; otherwise failed iff some non-empty
\* paragraph with a spacing record is not double spaced, exactly those
\* paragraphs being listed in document order; otherwise passed.
C16_LineSpacingVerdict ==
  ReturnedFrom("checkLineSpacing") =>
    LET res == output[1]
    IN  /\ Len(output) = 1
        /\ res.rule.id = "line-spacing"
        /\ res.status = "unable_to_verify" <=>
             2 * Cardinality(LackSpacing) > Cardinality(NonEmptyIndices)
        /\ res.status # "unable_to_verify" =>
             /\ res.status = "failed" <=> NotDoubleSpaced # {}
             /\ res.status = "passed" <=> NotDoubleSpaced = {}
        /\ res.status = "failed" =>
             Get(res.affectedElements) =
               LabelsWhere(BodyParagraphs, LAMBDA i : i \in NotDoubleSpaced)

\* exactly half of the non-empty paragraphs lack spacing data, the other
\* half is single spaced: failed, not unable_to_verify
C16_Witness ==
  /\ ReturnedFrom("checkLineSpacing")
  /\ Cardinality(NonEmptyIndices) = 2
  /\ Cardinality(LackSpacing) = 1
  /\ Cardinality(NotDoubleSpaced) = 1
  /\ output[1].status = "failed"
  /\ Len(Get(output[1].affectedElements)) = 1

\* the eligible paragraphs of the first-line-indent rule: non-empty and not
\* centered; those of them without a firstLine value; those with a value
\* more than 72 away from 720
EligibleIndices == {i \in NonEmptyIndices : BodyParagraphs[i].alignment # "center"}
LackFirstLine ==
  {i \in EligibleIndices :
     \/ ~IsSome(BodyParagraphs[i].indentation)
     \/ ~IsSome(Get(BodyParagraphs[i].indentation).firstLine)}
WrongFirstLine ==
  {i \in EligibleIndices \ LackFirstLine :
     Get(Get(BodyParagraphs[i].indentation).firstLine) \notin 648..792}

\* C17: first-line-indent is unable_to_verify iff more than half of the
\* eligible paragraphs have no firstLine value; otherwise failed iff some
\* eligible paragraph has a firstLine value more than 72 away from 720, and
\* passed otherwise; paragraphs without a value never count as failures.
C17_FirstLineIndentRule ==
  ReturnedFrom("checkFirstLineIndent") =>
    LET res == output[1]
    IN  /\ Len(output) = 1
        /\ res.rule.id = "first-line-indent"
        /\ res.status = "unable_to_verify" <=>
             2 * Cardinality(LackFirstLine) > Cardinality(EligibleIndices)
        /\ res.status # "unable_to_verify" =>
             /\ res.status = "failed" <=> WrongFirstLine # {}
             /\ res.status = "passed" <=> WrongFirstLine = {}
        /\ res.status = "failed" =>
             Range(Get(res.affectedElements)) \cap {ParagraphLabel(i) : i \in LackFirstLine} = {}

\* a hanging-indented entry next to a correctly indented paragraph: the
\* entry lacks data, and the rule passes
C17_Witness ==
  /\ ReturnedFrom("checkFirstLineIndent")
  /\ Cardinality(EligibleIndices) = 2
  /\ \E i \in LackFirstLine :
        /\ IsSome(BodyParagraphs[i].indentation)
        /\ IsSome(Get(BodyParagraphs[i].indentation).hanging)
  /\ Cardinality(LackFirstLine) = 1
  /\ output[1].status = "passed"

\* the first non-empty paragraph of the body (the body has one)
FirstNonEmpty == CHOOSE i \in NonEmptyIndices : \A j \in NonEmptyIndices : i <= j

\* the first non-empty paragraph is centered and shorter than 100 characters
FirstIsShortCentered ==
  /\ BodyParagraphs[FirstNonEmpty].alignment = "center"
  /\ Len(BodyParagraphs[FirstNonEmpty].text) < 100

\* a run of the first non-empty paragraph is bold, italic or underlined
FirstIsFormatted ==
  \E r \in 1..Len(BodyParagraphs[FirstNonEmpty].runs) :
     LET f == BodyParagraphs[FirstNonEmpty].runs[r].formatting
     IN  f.bold \/ f.italic \/ f.underline

FirstIsBold ==
  \E r \in 1..Len(BodyParagraphs[FirstNonEmpty].runs) :
     BodyParagraphs[FirstNonEmpty].runs[r].formatting.bold

\* C18: when the first non-empty paragraph is centered, shorter than 100
\* characters and has no bold, italic or underlined run, title-formatting is
\* passed, and with a bold run in it title-formatting is failed, whatever
\* the number of empty paragraphs before it.
C18_TitleDetection ==
  (ReturnedFrom("checkTitleFormatting") /\ FirstIsShortCentered) =>
    /\ ~FirstIsFormatted => output[1].status = "passed"
    /\ FirstIsBold => output[1].status = "failed"

\* C18 as the code has it: the same, for a first non-empty paragraph that is
\* among the first five paragraphs of the document.
C18_TitleDetectionInFirstFive ==
  (ReturnedFrom("checkTitleFormatting") /\ FirstIsShortCentered) =>
    /\ (~FirstIsFormatted /\ FirstNonEmpty <= 5) =>
         /\ output[1].status = "passed"
         /\ output[1].affectedElements = Some(<<ParagraphLabel(FirstNonEmpty)>>)
    /\ (~FirstIsFormatted /\ FirstNonEmpty > 5) => output[1].status = "failed"
    /\ FirstIsBold => output[1].status = "failed"

\* a plain centered title after four empty paragraphs passes
C18_Witness ==
  /\ ReturnedFrom("checkTitleFormatting")
  /\ FirstNonEmpty = 5
  /\ FirstIsShortCentered
  /\ ~FirstIsFormatted
  /\ output[1].status = "passed"

\* C19: when title-formatting is passed for the paragraph findTitle selects,
\* that paragraph is a potential title for isPotentialTitle and is not among
\* the affected elements of paragraph-alignment.
C19_TitleNotPenalized ==
  (Analyzed /\ ResultOf(report, "title-formatting").status = "passed") =>
    LET title == Get(findTitle(ModelParagraphs))
    IN  /\ isPotentialTitle(ModelParagraphs[title], title, ModelParagraphs)
        /\ ParagraphLabel(title) \notin
             Range(Get(ResultOf(report, "paragraph-alignment").affectedElements))

\* a header whose trimmed content is a name, whitespace and digits
IsNameAndNumber(h) == h.content \in {"Smith 1", " Smith 1 "}

\* a header with a paragraph aligned right or end
IsRightAligned(h) ==
  \E j \in 1..Len(h.paragraphs) : h.paragraphs[j].alignment \in {"right", "end"}

\* the issue itemized for the k-th header of a failed list
StatedIssue(h, k) ==
  "Header " \o ToString(k) \o ": " \o
    (IF IsNameAndNumber(h) THEN "Contains name and page number but not right-aligned"
     ELSE IF h.content \in {"", " "} THEN "Empty header"
     ELSE IF h.content \in {"Smith"} THEN "Missing page number"
     ELSE "Should follow format Last Name [page number]")

\* C20: header-format is unable_to_verify iff the header list is absent or
\* empty; passed iff some header is a name and a number and has a paragraph
\* aligned right or end; otherwise failed, with one issue per header: empty,
\* missing page number, wrong pattern, or matching but not right-aligned.
C20_HeaderFormatRule ==
  ReturnedFrom("checkHeaderFormat") =>
    LET res == output[1]
        hs == IF input.headers = None THEN <<>> ELSE Get(input.headers)
    IN  /\ Len(output) = 1
        /\ res.rule.id = "header-format"
        /\ res.status = "unable_to_verify" <=> Len(hs) = 0
        /\ res.status = "passed" <=>
             \E k \in 1..Len(hs) : IsNameAndNumber(hs[k]) /\ IsRightAligned(hs[k])
        /\ res.status \in Statuses
        /\ res.status = "failed" =>
             res.details.items = [k \in 1..Len(hs) |-> StatedIssue(hs[k], k)]

\* two headers, neither right-aligned with name and number: failed with
\* two issues
C20_Witness ==
  /\ ReturnedFrom("checkHeaderFormat")
  /\ input.headers # None
  /\ Len(Get(input.headers)) = 2
  /\ IsNameAndNumber(Get(input.headers)[1])
  /\ ~IsNameAndNumber(Get(input.headers)[2])
  /\ output[1].status = "failed"
  /\ Len(output[1].details.items) = 2

\* the non-empty paragraphs among the first 8 of the body, as indices
HeadingCandidates == {i \in NonEmptyIndices : i <= 8}

\* the k-th of the candidates, in document order
Candidate(k) ==
  BodyParagraphs[CHOOSE i \in HeadingCandidates :
                   Cardinality({j \in HeadingCandidates : j <= i}) = k]

\* the four signals of the heading rule over the first four candidates
NameSignal == Candidate(1).text \in {"John Smith"}
InstructorSignal == Candidate(2).text \in {"Dr. Johnson"}
DateSignal == \E k \in 1..4 : Candidate(k).text \in {"15 March 2024"}
AlignmentSignal == \A k \in 1..4 : Candidate(k).alignment \in {"left", "start"}
SignalCount ==
  Cardinality({s \in {"name", "instructor", "date", "alignment"} :
                 \/ s = "name" /\ NameSignal
                 \/ s = "instructor" /\ InstructorSignal
                 \/ s = "date" /\ DateSignal
                 \/ s = "alignment" /\ AlignmentSignal})

\* C21: with fewer than 4 non-empty paragraphs among the first 8,
\* heading-format is failed; otherwise it is passed iff at least 3 of the 4
\* signals hold over the first 4 of them, and failed otherwise with exactly
\* the missing signals named; it is never unable_to_verify.
C21_HeadingRule ==
  ReturnedFrom("checkMLAHeadingFormat") =>
    LET res == output[1]
    IN  /\ Len(output) = 1
        /\ res.rule.id = "heading-format"
        /\ res.status \in {"passed", "failed"}
        /\ Cardinality(HeadingCandidates) < 4 => res.status = "failed"
        /\ Cardinality(HeadingCandidates) >= 4 =>
             /\ res.status = "passed" <=> SignalCount >= 3
             /\ res.status = "failed" =>
                  /\ ("Student name not found or improperly formatted"
                        \in Range(res.details.items)) <=> ~NameSignal
                  /\ ("Instructor name not found" \in Range(res.details.items))
                        <=> ~InstructorSignal
                  /\ ("Date not found or improperly formatted"
                        \in Range(res.details.items)) <=> ~DateSignal
                  /\ ("Heading should be left-aligned" \in Range(res.details.items))
                        <=> ~AlignmentSignal
                  /\ Len(res.details.items) = 4 - SignalCount

\* three of the four signals after an empty paragraph: passed
C21_Witness ==
  /\ ReturnedFrom("checkMLAHeadingFormat")
  /\ Len(input.body) > 0
  /\ 1 \notin NonEmptyIndices
  /\ Cardinality(HeadingCandidates) = 4
  /\ SignalCount = 3
  /\ output[1].status = "passed"

\* the paragraphs whose text contains 'works cited' or 'bibliography', the
\* non-empty paragraphs after the first of them, and those of these with a
\* hanging value within 72 of 720
SectionHeadings ==
  {i \in 1..Len(BodyParagraphs) : BodyParagraphs[i].text \in {"Works Cited", "Bibliography"}}
SectionEntries ==
  {i \in NonEmptyIndices : \E h \in SectionHeadings : (\A g \in SectionHeadings : h <= g) /\ h < i}
HangingEntries ==
  {i \in SectionEntries :
     /\ IsSome(BodyParagraphs[i].indentation)
     /\ IsSome(Get(BodyParagraphs[i].indentation).hanging)
     /\ Get(Get(BodyParagraphs[i].indentation).hanging) \in 648..792}

\* C22: hanging-indent-works-cited is unable_to_verify iff no paragraph
\* contains 'works cited' or 'bibliography'; with such a paragraph and no
\* non-empty paragraph after the first one it is failed ('no citations');
\* otherwise passed iff every non-empty paragraph after it has a hanging
\* value within 72 of 720, and failed otherwise, the matching fraction being
\* reported when some but not all match.
C22_HangingIndentRule ==
  ReturnedFrom("checkWorksCitedFormatting") =>
    LET res == output[1]
    IN  /\ Len(output) = 1
        /\ res.rule.id = "hanging-indent-works-cited"
        /\ res.status = "unable_to_verify" <=> SectionHeadings = {}
        /\ (SectionHeadings # {} /\ SectionEntries = {}) =>
             /\ res.status = "failed"
             /\ res.details.text = "Works Cited page found but contains no citations"
        /\ (SectionHeadings # {} /\ SectionEntries # {}) =>
             /\ res.status = "passed" <=> HangingEntries = SectionEntries
             /\ res.status = "failed" <=> HangingEntries # SectionEntries
             /\ (HangingEntries # {} /\ HangingEntries # SectionEntries) =>
                  res.details.nums =
                    <<Cardinality(HangingEntries), Cardinality(SectionEntries)>>

\* a Bibliography heading with one matching and one non-matching entry:
\* failed, reporting 1 of 2
C22_Witness ==
  /\ ReturnedFrom("checkWorksCitedFormatting")
  /\ \E h \in SectionHeadings : BodyParagraphs[h].text = "Bibliography"
  /\ Cardinality(SectionEntries) = 2
  /\ Cardinality(HangingEntries) = 1
  /\ output[1].status = "failed"
  /\ output[1].details.nums = <<1, 2>>

\* decimal numerals among the source values and the integers they denote
IsNumeral(s) == s \in {"0", "-24", "7", "8", "24", "25", "144", "145"}
IntegerValue(s) ==
  CASE s = "0" -> 0 [] s = "-24" -> 0 - 24 [] s = "7" -> 7 [] s = "8" -> 8
    [] s = "24" -> 24 [] s = "25" -> 25 [] s = "144" -> 144 [] s = "145" -> 145

\* C23: the font size of a run is unknown or a number of points p with
\* 4 <= p <= 72 and p = (integer value of s) / 2 (sizes are in tenths of a
\* point here); it is unknown when the source value s is missing, zero,
\* negative, non-numeric, below 8 or above 144 half-points.
C23_FontSizeExtraction ==
  ReturnedFrom("parseFontSize") =>
    LET s    == input.sizeValue
        size == output[1].formatting.fontSize
    IN  /\ IsSome(size) =>
             /\ Get(size) \in 40..720
             /\ IsSome(s) /\ IsNumeral(Get(s))
             /\ Get(size) = IntegerValue(Get(s)) * 5
        /\ ( \/ ~IsSome(s)
             \/ ~IsNumeral(Get(s))
             \/ IntegerValue(Get(s)) <= 0
             \/ IntegerValue(Get(s)) < 8
             \/ IntegerValue(Get(s)) > 144 ) => size = None

\* the character data of the t nodes of a run, and of the runs of a
\* paragraph node, in document order
CharData(run) == JoinText(run.t.chars)
NodeText(node) == JoinText([k \in 1..Len(node.r) |-> CharData(node.r[k])])

\* C24: extractParagraphs returns one paragraph per paragraph node of the
\* body, in document order; the text of each is the in-order concatenation
\* of the text of its runs; a node without runs gives empty text and an
\* empty run list; alignment is 'left' when the node sets none; indentation
\* and spacing are undefined exactly when the node has no ind, respectively
\* no spacing, property node.
C24_ParagraphExtraction ==
  ReturnedFrom("extractParagraphs") =>
    /\ Len(output) = Len(input.body)
    /\ \A k \in 1..Len(input.body) :
         LET node == input.body[k]
             para == output[k]
         IN  /\ para.text = NodeText(node)
             /\ Len(para.runs) = Len(node.r)
             /\ node.r = <<>> => (para.text = "" /\ para.runs = <<>>)
             /\ ~IsSome(node.pPr.jc) => para.alignment = "left"
             /\ (IsSome(node.pPr.jc) /\ Get(node.pPr.jc) # "") =>
                  para.alignment = Get(node.pPr.jc)
             /\ para.indentation = None <=> ~IsSome(node.pPr.ind)
             /\ para.spacing = None <=> ~IsSome(node.pPr.spacing)

\* the page settings analyzeDocument extracts from the parse result of the run
PageSettingsOfRun ==
  IF IsSome(parseResult.settings) THEN extractPageSettings(Get(parseResult.settings)) ELSE None

\* the settings part of the archive parses to a tree whose root is settings
HasSettingsRoot ==
  file.parts.settings.kind = "xml" /\ file.parts.settings.tree.root = "settings"

\* the extracted page settings are null without a settings root and the
\* fixed defaults otherwise; margins and paper-size have the same status,
\* never failed
PageSettingsAreDefaults ==
  /\ PageSettingsOfRun =
       IF HasSettingsRoot
       THEN Some([margins |-> [top |-> 1440, bottom |-> 1440, left |-> 1440, right |-> 1440],
                  pageSize |-> [width |-> 12240, height |-> 15840],
                  orientation |-> "portrait"])
       ELSE None
  /\ ResultOf(report, "margins").status = ResultOf(report, "paper-size").status
  /\ ResultOf(report, "margins").status # "failed"

ReportOf(f) == analyzeDocument(parseDocx(f).value)

\* C26: whenever analysisResult is non-null it is the report computed from
\* the file held in uploadedFile: a completion of an analysis started for a
\* file that has since been removed or replaced leaves no report behind.
C26_NoStaleReport ==
  analysisResult # None =>
    /\ uploadedFile # None
    /\ parseDocx(Get(uploadedFile)).ok
    /\ Get(analysisResult) = ReportOf(Get(uploadedFile))

\* C27: isAnalyzing is true exactly while at least one performAnalysis call
\* is in flight.
C27_AnalyzingWhileInFlight == isAnalyzing <=> Len(calls) > 0

\* C28: analysisResult and analysisError are never both non-null.
C28_ReportOrError == ~(analysisResult # None /\ analysisError # None)

\* C30: the two Works Cited rules agree on whether there is a Works Cited
\* section: works-cited is passed iff hanging-indent-works-cited is not
\* unable_to_verify, and failed iff it is unable_to_verify.
C30_WorksCitedRulesAgree ==
  Analyzed =>
    LET presence == ResultOf(report, "works-cited").status
        hanging  == ResultOf(report, "hanging-indent-works-cited").status
    IN  /\ presence = "passed" <=> hanging # "unable_to_verify"
        /\ presence = "failed" <=> hanging = "unable_to_verify"

\* a heading as last paragraph: the section is found by both rules, the
\* hanging-indent rule failing for want of entries
C30_Witness ==
  /\ Analyzed
  /\ Len(ModelParagraphs) > 0
  /\ IsWorksCitedHeading(ModelParagraphs[Len(ModelParagraphs)])
  /\ ResultOf(report, "works-cited").status = "passed"
  /\ ResultOf(report, "hanging-indent-works-cited").status = "failed"

\* the affected-element labels of a result
AffectedLabels(res) ==
  IF IsSome(res.affectedElements) THEN Range(Get(res.affectedElements)) ELSE {}

\* the first four non-empty paragraphs among the first 8: the ones the
\* heading rule inspects
InspectedForHeading ==
  {i \in HeadingCandidates : Cardinality({j \in HeadingCandidates : j <= i}) <= 4}

\* the labels of the heading rule name inspected paragraphs
HeadingLabelsArePositions ==
  ReturnedFrom("checkMLAHeadingFormat") =>
    \A n \in 1..Len(BodyParagraphs) :
       ParagraphLabel(n) \in AffectedLabels(output[1]) => n \in InspectedForHeading

\* the labels of font-family and of font-size name paragraphs with a run at
\* fault for that rule
FontLabelsArePositions ==
  ReturnedFrom("checkFontFormatting") =>
    \A n \in 1..Len(FontParagraphs) :
       /\ ParagraphLabel(n) \in AffectedLabels(output[1]) => HasWrongFamilyRun(n)
       /\ ParagraphLabel(n) \in AffectedLabels(output[2]) => HasWrongSizeRun(n)

\* C29: each affected-element label 'Paragraph N' of a result denotes the
\* N-th paragraph of the model, and that paragraph is one the rule of the
\* result inspected and found at fault; so for heading-format with empty
\* paragraphs among the first 8, and for font-size when other paragraphs
\* violate the font family only.
C29_LabelsAreDocumentPositions ==
  /\ HeadingLabelsArePositions
  /\ FontLabelsArePositions

====
